---- MODULE Spec2Model ----
(***************************************************************************)
(* Model of buidl's PSBT workflow (psbt.py) and of the Script shapes it     *)
(* relies on (script.py).  Several in-memory copies of a PSBT over the same *)
(* transaction are created, updated, signed, combined and finalized.        *)
(*                                                                          *)
(* Byte strings are tagged tuples: <<"sec", point>> is a compressed public  *)
(* key, <<"h160", b>> a HASH160, <<"s256", b>> a SHA-256, <<"raw", script>> *)
(* the raw serialization of a script, <<"x00">> the one-byte string 0x00.   *)
(* A script command is [op |-> n] (an int in the source) or [data |-> b]    *)
(* (a bytes object in the source).  Python's None is the empty tuple and a  *)
(* value v held by an optional field is <<v>>.                              *)
(***************************************************************************)
EXTENDS Integers, Sequences, FiniteSets, TLC

VARIABLES
    psbts,      \* copy id -> PSBT object (tx_obj, psbt_ins, psbt_outs, hd_pubs, extra_map)
    finalized,  \* history: <<copy, input index>> on which PSBTIn.finalize has returned normally
    last,       \* history: the last call if it was a combine, a finalize, a final_tx
                \* or a constructor call, or if it raised, with its receiver and the
                \* exception it raised ("ok" if none)
    steps       \* number of calls the behaviour may still make

vars == <<psbts, finalized, last, steps>>

\* bound on the number of calls in one behaviour that starts from construction
MaxSteps == 4

\* bound on the number of calls in one behaviour of the three signers
MaxSignerSteps == 2

\* bound on the number of calls in one behaviour that an updater starts
MaxUpdaterSteps == 2

\* bound on the number of calls in one behaviour that ends with final_tx
MaxFinalSteps == 3

\* bound on the number of constructor calls in one behaviour
MaxConstructSteps == 1

\* bound on the number of calls in one behaviour of the two parties
MaxPartySteps == 2

\* the calls of the holders who exchange serialized PSBTs
MaxWireSteps == 2

\* bound on the number of PSBT.parse calls on one received stream
MaxParseSteps == 1

\* bound on the number of PSBT.create calls on one transaction
MaxCreateSteps == 1

\* bound on the number of sign calls on one PSBT
MaxSignSteps == 2

\* bound on the number of commands of a script
MaxCommands == 2

\* bound on the number of bytes missing at the end of a received script
MaxCut == 2

\* a script is serialized and the serialization is parsed
MaxScriptSteps == 2

\* the count of the commands that Script.evaluate has executed stops here
MaxExecuted == 24

-----------------------------------------------------------------------------
(* Python values *)

None == <<>>
Some(v) == <<v>>

\* truthiness of an optional object without __bool__/__len__ (Tx, TxOut, Script)
Truthy(o) == o # None

\* truthiness of an optional int
TruthyInt(o) == o # None /\ o[1] # 0

\* dict.get on a dict modelled as a function
Get(d, k) == IF k \in DOMAIN d THEN Some(d[k]) ELSE None

\* {**lo, **hi}: entries of hi win
Merge(lo, hi) ==
    [k \in (DOMAIN lo) \cup (DOMAIN hi) |-> IF k \in DOMAIN hi THEN hi[k] ELSE lo[k]]

\* d[k] = v
Put(d, k, v) == [x \in (DOMAIN d) \cup {k} |-> IF x = k THEN v ELSE d[x]]

\* The sigs dict keeps insertion order (Python dict): a sequence of entries
\* with pairwise different keys.
OKeys(od) == {od[j].sec : j \in DOMAIN od}

OGet(od, k) ==
    IF k \in OKeys(od)
    THEN Some(od[CHOOSE j \in DOMAIN od : od[j].sec = k].sig)
    ELSE None

OPut(od, k, v) ==
    IF k \in OKeys(od)
    THEN [j \in DOMAIN od |-> IF od[j].sec = k THEN [sec |-> k, sig |-> v] ELSE od[j]]
    ELSE Append(od, [sec |-> k, sig |-> v])

RECURSIVE OMerge(_, _)
\* {**lo, **hi} on insertion-ordered dicts
OMerge(lo, hi) ==
    IF hi = <<>> THEN lo
    ELSE OMerge(OPut(lo, Head(hi).sec, Head(hi).sig), Tail(hi))

\* dict equality ignores insertion order
ODict(od) == [k \in OKeys(od) |-> OGet(od, k)[1]]

-----------------------------------------------------------------------------
(* Byte strings and hashes *)

sec(point) == <<"sec", point>>
hash160(b) == <<"h160", b>>
sha256(b) == <<"s256", b>>
ZeroByte == <<"x00">>

\* len(b) for the byte strings the shape predicates look at
BytesLen(b) ==
    CASE b[1] = "h160" -> 20
      [] b[1] = "s256" -> 32
      [] b[1] = "sec" -> 33
      [] b[1] = "x00" -> 1
      [] b[1] = "x01" -> 1
      [] b[1] = "empty" -> 0
      [] OTHER -> 72

-----------------------------------------------------------------------------
(* Script (script.py) *)

Op(n) == [op |-> n]
Data(b) == [data |-> b]
IsOp(command) == DOMAIN command = {"op"}
IsData(command) == DOMAIN command = {"data"}

OP_0 == 0
OP_DUP == 118
OP_EQUAL == 135
OP_EQUALVERIFY == 136
OP_HASH160 == 169
OP_CHECKSIG == 172
OP_CHECKMULTISIG == 174

raw_serialize(script) == <<"raw", script>>

is_p2pkh(script) ==
    /\ Len(script) = 5
    /\ script[1] = Op(OP_DUP)
    /\ script[2] = Op(OP_HASH160)
    /\ IsData(script[3])
    /\ BytesLen(script[3].data) = 20
    /\ script[4] = Op(OP_EQUALVERIFY)
    /\ script[5] = Op(OP_CHECKSIG)

is_p2sh(script) ==
    /\ Len(script) = 3
    /\ script[1] = Op(OP_HASH160)
    /\ IsData(script[2])
    /\ BytesLen(script[2].data) = 20
    /\ script[3] = Op(OP_EQUAL)

is_p2wpkh(script) ==
    /\ Len(script) = 2
    /\ script[1] = Op(OP_0)
    /\ IsData(script[2])
    /\ BytesLen(script[2].data) = 20

is_p2wsh(script) ==
    /\ Len(script) = 2
    /\ script[1] = Op(OP_0)
    /\ IsData(script[2])
    /\ BytesLen(script[2].data) = 32

P2PKHScriptPubKey(h160) == <<Op(OP_DUP), Op(OP_HASH160), Data(h160), Op(OP_EQUALVERIFY), Op(OP_CHECKSIG)>>
P2SHScriptPubKey(h160) == <<Op(OP_HASH160), Data(h160), Op(OP_EQUAL)>>
P2WPKHScriptPubKey(h160) == <<Op(OP_0), Data(h160)>>
P2WSHScriptPubKey(s256) == <<Op(OP_0), Data(s256)>>

\* RedeemScript.hash160 and WitnessScript.sha256
RedeemScript_hash160(script) == hash160(raw_serialize(script))
WitnessScript_sha256(script) == sha256(raw_serialize(script))

\* helper.op_code_to_number: OP_1..OP_16 are 81..96
op_code_to_number(command) == command.op - 80

-----------------------------------------------------------------------------
(* The transactions, keys and lookup tables of the scenarios *)

\* The public key of signer s: the point at path m/0 of the signer's HD key.
Point(s) == <<s, 0>>

Signers == {1, 2, 3}

\* a key that occurs in no script of the scenarios
ForeignPoint == Point(4)

\* the shapes PSBTIn.update tells apart, and "other": a pay-to-pubkey output,
\* which is none of them
InputKinds == {"p2pkh", "p2wpkh", "p2sh-p2wpkh", "p2sh", "p2wsh", "p2sh-p2wsh", "other"}

\* 2-of-3 multisig; the keys are not in sorted order in the script
MultisigScript ==
    <<Op(82), Data(sec(Point(2))), Data(sec(Point(3))), Data(sec(Point(1))),
      Op(83), Op(OP_CHECKMULTISIG)>>

\* 2-of-2 multisig that lists the key of signer 1 twice
RepeatedKeyScript ==
    <<Op(82), Data(sec(Point(1))), Data(sec(Point(1))), Op(82), Op(OP_CHECKMULTISIG)>>

\* the kinds of outputs of the previous transactions: those of InputKinds and
\* a P2WSH output behind which is the script with the repeated key
OutputKinds == InputKinds \cup {"p2wsh-repeated"}

SingleKeyHash == hash160(sec(Point(1)))

\* the witness script behind an output of this kind, if any
WitnessScriptOf(kind) ==
    IF kind \in {"p2wsh", "p2sh-p2wsh"} THEN Some(MultisigScript)
    ELSE IF kind = "p2wsh-repeated" THEN Some(RepeatedKeyScript)
    ELSE None

\* the redeem script behind an output of this kind, if any
RedeemScriptOf(kind) ==
    CASE kind = "p2sh" -> Some(MultisigScript)
      [] kind = "p2sh-p2wpkh" -> Some(P2WPKHScriptPubKey(SingleKeyHash))
      [] kind = "p2sh-p2wsh" -> Some(P2WSHScriptPubKey(WitnessScript_sha256(MultisigScript)))
      [] OTHER -> None

ScriptPubKeyOf(kind) ==
    CASE kind = "p2pkh" -> P2PKHScriptPubKey(SingleKeyHash)
      [] kind = "p2wpkh" -> P2WPKHScriptPubKey(SingleKeyHash)
      [] kind = "p2wsh" -> P2WSHScriptPubKey(WitnessScript_sha256(MultisigScript))
      [] kind = "p2wsh-repeated" -> P2WSHScriptPubKey(WitnessScript_sha256(RepeatedKeyScript))
      [] kind = "other" -> <<Data(sec(Point(1))), Op(OP_CHECKSIG)>>
      [] OTHER -> P2SHScriptPubKey(RedeemScript_hash160(RedeemScriptOf(kind)[1]))

\* the previous transaction whose single output has this kind
TxId(kind) == <<"txid", kind>>
PrevTx(kind) == [hash |-> TxId(kind), tx_outs |-> <<[script_pubkey |-> ScriptPubKeyOf(kind)]>>]

\* the unsigned transaction spending one output of each kind of in_kinds
\* and paying to one output of each kind of out_kinds
TxObj(in_kinds, out_kinds) ==
    [hash |-> <<"tx", in_kinds, out_kinds>>,
     tx_ins |-> [i \in DOMAIN in_kinds |-> [prev_tx |-> TxId(in_kinds[i]), prev_index |-> 1]],
     tx_outs |-> [i \in DOMAIN out_kinds |-> [script_pubkey |-> ScriptPubKeyOf(out_kinds[i])]]]

\* the transactions a behaviour is about
TxObjs == {TxObj(<<k>>, <<k>>) : k \in InputKinds}

\* NamedPublicKey: a point with its root fingerprint and path
NamedPublicKey(s) == [point |-> Point(s), root_fingerprint |-> s, root_path |-> <<0>>]

\* tx_lookup: previous transaction hash -> Tx
TxLookup(known) ==
    IF known THEN [h \in {TxId(k) : k \in OutputKinds} |-> PrevTx(CHOOSE k \in OutputKinds : TxId(k) = h)]
    ELSE <<>>

\* NamedHDPublicKey.pubkey_lookup of the signers in S: sec and hash160 -> key
PubkeyLookup(S) ==
    [b \in {sec(Point(s)) : s \in S} \cup {hash160(sec(Point(s))) : s \in S} |->
        NamedPublicKey(CHOOSE s \in S : b \in {sec(Point(s)), hash160(sec(Point(s)))})]

RedeemKinds == {k \in InputKinds : RedeemScriptOf(k) # None}

\* redeem_lookup: hash160 of a RedeemScript -> RedeemScript
RedeemLookup(known) ==
    IF known
    THEN [h \in {RedeemScript_hash160(RedeemScriptOf(k)[1]) : k \in RedeemKinds} |->
            RedeemScriptOf(CHOOSE k \in RedeemKinds : RedeemScript_hash160(RedeemScriptOf(k)[1]) = h)[1]]
    ELSE <<>>

\* witness_lookup: sha256 of a WitnessScript -> WitnessScript
WitnessLookup(known) ==
    IF known
    THEN [h \in {WitnessScript_sha256(MultisigScript), WitnessScript_sha256(RepeatedKeyScript)} |->
            IF h = WitnessScript_sha256(MultisigScript) THEN MultisigScript ELSE RepeatedKeyScript]
    ELSE <<>>

\* what an updater may know: the previous transactions, the keys of some
\* signers, the redeem scripts, the witness scripts
Knowledge ==
    {<<FALSE, {}, FALSE, FALSE>>, <<TRUE, {}, FALSE, FALSE>>, <<TRUE, {}, TRUE, TRUE>>,
     <<TRUE, Signers, TRUE, FALSE>>, <<TRUE, {1}, TRUE, TRUE>>, <<TRUE, {2}, TRUE, TRUE>>,
     <<TRUE, Signers, TRUE, TRUE>>, <<FALSE, Signers, TRUE, TRUE>>}

\* the lookup tables handed to update
Lookups ==
    {[tx_lookup |-> TxLookup(k[1]), pubkey_lookup |-> PubkeyLookup(k[2]),
      redeem_lookup |-> RedeemLookup(k[3]), witness_lookup |-> WitnessLookup(k[4])] : k \in Knowledge}

\* Tx.get_sig_legacy / Tx.get_sig_segwit: the signature of the key over the
\* signature hash of input i, which depends on the algorithm and on the
\* scripts handed to it
Signature(i, point, alg, redeem_script, witness_script) ==
    <<"sig", i, point, alg, redeem_script, witness_script>>

-----------------------------------------------------------------------------
(* PSBTIn (psbt.py) *)

\* script.commands.index(b) finds b
HasCommand(script, b) == \E j \in DOMAIN script : IsData(script[j]) /\ script[j].data = b

\* lookup.get(command): the keys of the lookups are bytes, so an int command
\* is never found
GetCommand(lookup, command) ==
    IF IsData(command) THEN Get(lookup, command.data) ELSE None

\* NamedPublicKey.sec and NamedPublicKey.hash160
named_pub_sec(named_pub) == sec(named_pub.point)
named_pub_hash160(named_pub) == hash160(sec(named_pub.point))

\* PSBTIn.script_pubkey: the ScriptPubKey being spent, None without provenance
script_pubkey(p) ==
    IF Truthy(p.prev_tx) THEN Some(p.prev_tx[1].tx_outs[p.tx_in.prev_index].script_pubkey)
    ELSE IF Truthy(p.prev_out) THEN Some(p.prev_out[1].script_pubkey)
    ELSE None

\* the one value of a dict with a single entry
OnlyValue(d) == d[CHOOSE k \in DOMAIN d : TRUE]

\* PSBTIn.validate: "ok" or the exception raised
PSBTIn_validate(p) ==
    LET spk == script_pubkey(p)[1]
        rs == p.redeem_script[1]
        ws == p.witness_script[1]
        pubs == p.named_pubs
    IN
    IF Truthy(p.prev_tx) THEN
        IF p.tx_in.prev_tx # p.prev_tx[1].hash THEN "ValueError"
        ELSE IF p.tx_in.prev_index > Len(p.prev_tx[1].tx_outs) THEN "ValueError"
        ELSE IF Truthy(p.redeem_script) THEN
            IF ~is_p2sh(spk) THEN "ValueError"
            ELSE IF is_p2wsh(rs) \/ is_p2wpkh(rs) THEN "ValueError"
            ELSE IF RedeemScript_hash160(rs) # spk[2].data THEN "ValueError"
            ELSE IF \E b \in DOMAIN pubs : ~HasCommand(rs, b) THEN "ValueError"
            ELSE "ok"
        ELSE IF is_p2pkh(spk) THEN
            IF Cardinality(DOMAIN pubs) > 1 THEN "ValueError"
            ELSE IF Cardinality(DOMAIN pubs) = 1
                    /\ spk[3].data # named_pub_hash160(OnlyValue(pubs)) THEN "ValueError"
            ELSE "ok"
        ELSE "ok"
    ELSE IF Truthy(p.prev_out) THEN
        IF ~is_p2sh(spk) /\ ~is_p2wsh(spk) /\ ~is_p2wpkh(spk) THEN "ValueError"
        ELSE IF Truthy(p.witness_script) THEN
            IF ~is_p2wsh(spk) /\ ~(Truthy(p.redeem_script) /\ is_p2wsh(rs)) THEN "ValueError"
            ELSE IF Truthy(p.redeem_script) /\ RedeemScript_hash160(rs) # spk[2].data THEN "ValueError"
            ELSE IF WitnessScript_sha256(ws) #
                      (IF Truthy(p.redeem_script) THEN rs[2].data ELSE p.prev_out[1].script_pubkey[2].data)
                 THEN "ValueError"
            ELSE IF \E b \in DOMAIN pubs : ~HasCommand(ws, b) THEN "ValueError"
            ELSE "ok"
        ELSE IF is_p2wpkh(spk) \/ (Truthy(p.redeem_script) /\ is_p2wpkh(rs)) THEN
            IF Cardinality(DOMAIN pubs) > 1 THEN "ValueError"
            ELSE IF Cardinality(DOMAIN pubs) = 1
                    /\ spk[2].data # named_pub_hash160(OnlyValue(pubs)) THEN "ValueError"
            ELSE "ok"
        ELSE "ok"
    ELSE "ok"

\* PSBTIn.__init__: the object built from the arguments; it exists only if
\* the constructor raises nothing
PSBTIn_init(tx_in, prev_tx, prev_out, sigs, hash_type, extra_map) ==
    [tx_in |-> tx_in, prev_tx |-> prev_tx, prev_out |-> prev_out, sigs |-> sigs,
     hash_type |-> hash_type, redeem_script |-> None, witness_script |-> None,
     named_pubs |-> <<>>, script_sig |-> None, witness |-> None, extra_map |-> extra_map]

\* PSBTIn.__init__ called with scripts and key annotations as well
PSBTIn_init_with(tx_in, prev_tx, prev_out, sigs, hash_type, redeem_script, witness_script, named_pubs, extra_map) ==
    [tx_in |-> tx_in, prev_tx |-> prev_tx, prev_out |-> prev_out, sigs |-> sigs,
     hash_type |-> hash_type, redeem_script |-> redeem_script, witness_script |-> witness_script,
     named_pubs |-> named_pubs, script_sig |-> None, witness |-> None, extra_map |-> extra_map]

PSBTIn_init_ok(p) ==
    /\ ~(Truthy(p.prev_tx) /\ Truthy(p.prev_out))
    /\ PSBTIn_validate(p) = "ok"

\* the loops "for command in script.commands: named_pub = pubkey_lookup.get(command);
\* if named_pub: self.named_pubs[named_pub.sec()] = named_pub.point"
AddNamedPubs(named_pubs, script, pubkey_lookup) ==
    LET found == {GetCommand(pubkey_lookup, script[j])[1] :
                    j \in {i \in DOMAIN script : GetCommand(pubkey_lookup, script[i]) # None}}
    IN Merge(named_pubs,
             [b \in {named_pub_sec(n) : n \in found} |-> CHOOSE n \in found : named_pub_sec(n) = b])

\* "named_pub = pubkey_lookup.get(h160); if named_pub: self.named_pubs[...] = ..."
AddNamedPub(named_pubs, h160, pubkey_lookup) ==
    IF Get(pubkey_lookup, h160) # None
    THEN Put(named_pubs, named_pub_sec(Get(pubkey_lookup, h160)[1]), Get(pubkey_lookup, h160)[1])
    ELSE named_pubs

\* PSBTIn.update: the input afterwards and the exception raised ("ok" if none)
PSBTIn_update(p, tx_lookup, pubkey_lookup, redeem_lookup, witness_lookup) ==
    LET prev_tx == IF Truthy(p.prev_tx) THEN p.prev_tx ELSE Get(tx_lookup, p.tx_in.prev_tx)
        prev_out == IF Truthy(prev_tx) THEN Some(prev_tx[1].tx_outs[p.tx_in.prev_index]) ELSE p.prev_out
    IN
    IF ~Truthy(prev_tx) /\ ~Truthy(prev_out) THEN [p |-> p, err |-> "ok"]
    ELSE
    LET spk == prev_out[1].script_pubkey
        redeem_script ==
            IF is_p2sh(spk)
            THEN (IF Truthy(p.redeem_script) THEN p.redeem_script ELSE Get(redeem_lookup, spk[2].data))
            ELSE p.redeem_script
        p1 == [p EXCEPT !.redeem_script = redeem_script]
        rs == redeem_script[1]
    IN
    IF is_p2sh(spk) /\ ~Truthy(redeem_script) THEN [p |-> p1, err |-> "ok"]
    ELSE IF is_p2wpkh(spk) \/ (Truthy(redeem_script) /\ is_p2wpkh(rs)) THEN
        LET h160 == IF is_p2wpkh(spk) THEN spk[2].data ELSE rs[2].data
        IN [p |-> [p1 EXCEPT !.prev_out = prev_out,
                             !.named_pubs = AddNamedPub(p.named_pubs, h160, pubkey_lookup)],
            err |-> "ok"]
    ELSE IF is_p2wsh(spk) \/ (Truthy(redeem_script) /\ is_p2wsh(rs)) THEN
        LET s256 == IF is_p2wsh(spk) THEN spk[2].data ELSE rs[2].data
            witness_script ==
                IF Truthy(p.witness_script) THEN p.witness_script ELSE Get(witness_lookup, s256)
        IN [p |-> [p1 EXCEPT !.prev_out = prev_out,
                             !.witness_script = witness_script,
                             !.named_pubs = IF Truthy(witness_script)
                                            THEN AddNamedPubs(p.named_pubs, witness_script[1], pubkey_lookup)
                                            ELSE p.named_pubs],
            err |-> "ok"]
    ELSE IF is_p2sh(spk) THEN
        [p |-> [p1 EXCEPT !.prev_tx = prev_tx,
                          !.named_pubs = AddNamedPubs(p.named_pubs, rs, pubkey_lookup)],
         err |-> "ok"]
    ELSE IF is_p2pkh(spk) THEN
        [p |-> [p1 EXCEPT !.prev_tx = prev_tx,
                          !.named_pubs = AddNamedPub(p.named_pubs, spk[3].data, pubkey_lookup)],
         err |-> "ok"]
    ELSE [p |-> p1, err |-> "ValueError"]

\* PSBTIn.combine with the signatures of an input that already carries a final
\* unlocking script left out of the merge
PSBTIn_combine_SkipsFinalSigs(self, other) ==
    [self EXCEPT
        !.prev_tx = IF self.prev_tx = None /\ Truthy(other.prev_tx) THEN other.prev_tx ELSE @,
        !.prev_out = IF self.prev_out = None /\ Truthy(other.prev_out) THEN other.prev_out ELSE @,
        !.sigs = IF other.script_sig = None THEN OMerge(self.sigs, other.sigs) ELSE @,
        !.hash_type = IF self.hash_type = None /\ TruthyInt(other.hash_type) THEN other.hash_type ELSE @,
        !.redeem_script = IF self.redeem_script = None /\ Truthy(other.redeem_script)
                          THEN other.redeem_script ELSE @,
        !.witness_script = IF self.witness_script = None /\ Truthy(other.witness_script)
                           THEN other.witness_script ELSE @,
        !.named_pubs = Merge(other.named_pubs, self.named_pubs),
        !.script_sig = IF self.script_sig = None /\ Truthy(other.script_sig) THEN other.script_sig ELSE @,
        !.witness = IF self.witness = None /\ Truthy(other.witness) THEN other.witness ELSE @,
        !.extra_map = Merge(other.extra_map, self.extra_map)]

\* PSBTIn.combine: the receiver afterwards
PSBTIn_combine(self, other) ==
    [self EXCEPT
        !.prev_tx = IF self.prev_tx = None /\ Truthy(other.prev_tx) THEN other.prev_tx ELSE @,
        !.prev_out = IF self.prev_out = None /\ Truthy(other.prev_out) THEN other.prev_out ELSE @,
        !.sigs = OMerge(self.sigs, other.sigs),
        !.hash_type = IF self.hash_type = None /\ TruthyInt(other.hash_type) THEN other.hash_type ELSE @,
        !.redeem_script = IF self.redeem_script = None /\ Truthy(other.redeem_script)
                          THEN other.redeem_script ELSE @,
        !.witness_script = IF self.witness_script = None /\ Truthy(other.witness_script)
                           THEN other.witness_script ELSE @,
        !.named_pubs = Merge(other.named_pubs, self.named_pubs),
        !.script_sig = IF self.script_sig = None /\ Truthy(other.script_sig) THEN other.script_sig ELSE @,
        !.witness = IF self.witness = None /\ Truthy(other.witness) THEN other.witness ELSE @,
        !.extra_map = Merge(other.extra_map, self.extra_map)]

\* self.sigs.get(command): the keys of sigs are bytes
SigsGet(sigs, command) ==
    IF IsData(command) THEN OGet(sigs, command.data) ELSE None

\* the loop of the p2wsh branch written over the items of the sigs dict
\* instead of the commands of the WitnessScript
WitnessItemsLoop_OverSigs(commands, sigs, witness_items, num_sigs) ==
    LET usable == SelectSeq(sigs, LAMBDA e : HasCommand(commands, e.sec))
        taken == SubSeq(usable, 1, IF Len(usable) < num_sigs THEN Len(usable) ELSE num_sigs)
    IN witness_items \o [j \in DOMAIN taken |-> taken[j].sig]

RECURSIVE WitnessItemsLoop(_, _, _, _)
\* the loop of the p2wsh branch over the commands of the WitnessScript
WitnessItemsLoop(commands, sigs, witness_items, num_sigs) ==
    IF commands = <<>> THEN witness_items
    ELSE LET sig == SigsGet(sigs, Head(commands))
             items == IF sig # None THEN Append(witness_items, sig[1]) ELSE witness_items
         IN IF Len(items) - 1 >= num_sigs THEN items
            ELSE WitnessItemsLoop(Tail(commands), sigs, items, num_sigs)

RECURSIVE ScriptSigCommandsLoop(_, _, _, _)
\* the loop of the p2sh branch over the commands of the RedeemScript
ScriptSigCommandsLoop(commands, sigs, script_sig_commands, num_sigs) ==
    IF commands = <<>> THEN script_sig_commands
    ELSE IF IsOp(Head(commands))
         THEN ScriptSigCommandsLoop(Tail(commands), sigs, script_sig_commands, num_sigs)
    ELSE LET sig == SigsGet(sigs, Head(commands))
             cmds == IF sig # None THEN Append(script_sig_commands, Data(sig[1]))
                     ELSE script_sig_commands
         IN IF Len(cmds) - 1 >= num_sigs THEN cmds
            ELSE ScriptSigCommandsLoop(Tail(commands), sigs, cmds, num_sigs)

\* the p2sh branch's check "make sure we have enough sigs to pass validation"
P2SHNotEnough(script_sig_commands, num_sigs) == Len(script_sig_commands) < num_sigs

\* the p2wsh branch's check "make sure we have enough sigs to pass validation"
P2WSHNotEnough(witness_items, num_sigs) == Len(witness_items) - 1 < num_sigs

\* "reset sigs, hash_type, redeem_script, witness_script and named_pubs to be empty"
ResetSigning(p) ==
    [p EXCEPT !.sigs = <<>>, !.hash_type = None, !.redeem_script = None,
              !.witness_script = None, !.named_pubs = <<>>]

\* the p2wpkh / p2sh-p2wpkh branch checking for at least one signature
FinalizeP2WPKH_AtLeastOne(p) ==
    IF Len(p.sigs) < 1 THEN [p |-> p, err |-> "RuntimeError"]
    ELSE [p |-> ResetSigning(
                  [p EXCEPT !.script_sig = IF Truthy(p.redeem_script)
                                           THEN Some(<<Data(raw_serialize(p.redeem_script[1]))>>)
                                           ELSE Some(<<>>),
                            !.witness = Some(<<p.sigs[1].sig, p.sigs[1].sec>>)]),
          err |-> "ok"]

\* the p2wpkh / p2sh-p2wpkh branch of PSBTIn.finalize
FinalizeP2WPKH(p) ==
    IF Len(p.sigs) # 1 THEN [p |-> p, err |-> "RuntimeError"]
    ELSE [p |-> ResetSigning(
                  [p EXCEPT !.script_sig = IF Truthy(p.redeem_script)
                                           THEN Some(<<Data(raw_serialize(p.redeem_script[1]))>>)
                                           ELSE Some(<<>>),
                            !.witness = Some(<<p.sigs[1].sig, p.sigs[1].sec>>)]),
          err |-> "ok"]

\* the p2wsh / p2sh-p2wsh branch of PSBTIn.finalize
FinalizeP2WSH(p) ==
    IF ~Truthy(p.witness_script) THEN [p |-> p, err |-> "RuntimeError"]
    ELSE
    LET ws == p.witness_script[1]
        num_sigs == op_code_to_number(ws[1])
        witness_items == WitnessItemsLoop(ws, p.sigs, <<ZeroByte>>, num_sigs)
    IN
    IF Len(p.sigs) < num_sigs THEN [p |-> p, err |-> "RuntimeError"]
    ELSE IF P2WSHNotEnough(witness_items, num_sigs) THEN [p |-> p, err |-> "RuntimeError"]
    ELSE [p |-> ResetSigning(
                  [p EXCEPT !.witness = Some(Append(witness_items, raw_serialize(ws))),
                            !.script_sig = IF Truthy(p.redeem_script)
                                           THEN Some(<<Data(raw_serialize(p.redeem_script[1]))>>)
                                           ELSE Some(<<>>)]),
          err |-> "ok"]

\* the p2sh branch without the raw RedeemScript appended as the last command
FinalizeP2SH_NoRedeemScript(p) ==
    LET rs == p.redeem_script[1]
        num_sigs == op_code_to_number(rs[1])
        script_sig_commands == ScriptSigCommandsLoop(rs, p.sigs, <<Op(OP_0)>>, num_sigs)
    IN
    IF Len(p.sigs) < num_sigs THEN [p |-> p, err |-> "RuntimeError"]
    ELSE IF P2SHNotEnough(script_sig_commands, num_sigs) THEN [p |-> p, err |-> "RuntimeError"]
    ELSE [p |-> ResetSigning([p EXCEPT !.script_sig = Some(script_sig_commands)]),
          err |-> "ok"]

\* the p2sh branch of PSBTIn.finalize
FinalizeP2SH(p) ==
    LET rs == p.redeem_script[1]
        num_sigs == op_code_to_number(rs[1])
        script_sig_commands == ScriptSigCommandsLoop(rs, p.sigs, <<Op(OP_0)>>, num_sigs)
    IN
    IF Len(p.sigs) < num_sigs THEN [p |-> p, err |-> "RuntimeError"]
    ELSE IF P2SHNotEnough(script_sig_commands, num_sigs) THEN [p |-> p, err |-> "RuntimeError"]
    ELSE [p |-> ResetSigning(
                  [p EXCEPT !.script_sig = Some(Append(script_sig_commands, Data(raw_serialize(rs))))]),
          err |-> "ok"]

\* the p2pkh branch of PSBTIn.finalize
FinalizeP2PKH(p) ==
    IF Len(p.sigs) # 1 THEN [p |-> p, err |-> "RuntimeError"]
    ELSE [p |-> ResetSigning(
                  [p EXCEPT !.script_sig = Some(<<Data(p.sigs[1].sig), Data(p.sigs[1].sec)>>)]),
          err |-> "ok"]

\* PSBTIn.finalize: the input afterwards and the exception raised ("ok" if none)
PSBTIn_finalize(p) ==
    IF script_pubkey(p) = None THEN [p |-> p, err |-> "AttributeError"]
    ELSE
    LET spk == script_pubkey(p)[1]
        rs == p.redeem_script[1]
    IN
    IF is_p2sh(spk) /\ ~Truthy(p.redeem_script) THEN [p |-> p, err |-> "RuntimeError"]
    ELSE IF is_p2wpkh(spk) \/ (Truthy(p.redeem_script) /\ is_p2wpkh(rs)) THEN FinalizeP2WPKH(p)
    ELSE IF is_p2wsh(spk) \/ (Truthy(p.redeem_script) /\ is_p2wsh(rs)) THEN FinalizeP2WSH(p)
    ELSE IF is_p2sh(spk) THEN FinalizeP2SH(p)
    ELSE IF is_p2pkh(spk) THEN FinalizeP2PKH(p)
    ELSE [p |-> p, err |-> "ValueError"]

-----------------------------------------------------------------------------
(* PSBTOut (psbt.py) *)

\* PSBTOut.__init__
PSBTOut_init(tx_out, extra_map) ==
    [tx_out |-> tx_out, redeem_script |-> None, witness_script |-> None,
     named_pubs |-> <<>>, extra_map |-> extra_map]

\* PSBTOut.validate: "ok" or the exception raised
PSBTOut_validate(o) ==
    LET spk == o.tx_out.script_pubkey
        rs == o.redeem_script[1]
        ws == o.witness_script[1]
        pubs == o.named_pubs
    IN
    IF is_p2pkh(spk) THEN
        IF Truthy(o.redeem_script) THEN "KeyError"
        ELSE IF Truthy(o.witness_script) THEN "KeyError"
        ELSE IF Cardinality(DOMAIN pubs) > 1 THEN "ValueError"
        ELSE IF Cardinality(DOMAIN pubs) = 1
                /\ spk[3].data # named_pub_hash160(OnlyValue(pubs)) THEN "ValueError"
        ELSE "ok"
    ELSE IF is_p2wpkh(spk) THEN
        IF Truthy(o.redeem_script) THEN "KeyError"
        ELSE IF Truthy(o.witness_script) THEN "KeyError"
        ELSE IF Cardinality(DOMAIN pubs) > 1 THEN "ValueError"
        ELSE IF Cardinality(DOMAIN pubs) = 1
                /\ spk[2].data # named_pub_hash160(OnlyValue(pubs)) THEN "ValueError"
        ELSE "ok"
    ELSE IF Truthy(o.witness_script) THEN
        IF Truthy(o.redeem_script) /\ Data(RedeemScript_hash160(rs)) # spk[2] THEN "ValueError"
        ELSE IF Data(WitnessScript_sha256(ws)) # (IF Truthy(o.redeem_script) THEN rs[2] ELSE spk[2])
             THEN "ValueError"
        ELSE IF \E b \in DOMAIN pubs : ~HasCommand(ws, b) THEN "ValueError"
        ELSE "ok"
    ELSE IF Truthy(o.redeem_script) THEN
        IF \E b \in DOMAIN pubs : ~HasCommand(rs, b) THEN "ValueError" ELSE "ok"
    ELSE "ok"

\* PSBTOut.update: the output afterwards
PSBTOut_update(o, pubkey_lookup, redeem_lookup, witness_lookup) ==
    LET spk == o.tx_out.script_pubkey
        redeem_script == IF is_p2sh(spk) THEN Get(redeem_lookup, spk[2].data) ELSE o.redeem_script
        o1 == [o EXCEPT !.redeem_script = redeem_script]
        rs == redeem_script[1]
    IN
    IF is_p2sh(spk) /\ ~Truthy(redeem_script) THEN o1
    ELSE IF is_p2wpkh(spk) \/ (Truthy(redeem_script) /\ is_p2wpkh(rs)) THEN
        LET h160 == IF Truthy(redeem_script) THEN rs[2].data ELSE spk[2].data
        IN [o1 EXCEPT !.named_pubs = AddNamedPub(o.named_pubs, h160, pubkey_lookup)]
    ELSE IF is_p2wsh(spk) \/ (Truthy(redeem_script) /\ is_p2wsh(rs)) THEN
        LET s256 == IF Truthy(redeem_script) THEN rs[2].data ELSE spk[2].data
            witness_script == Get(witness_lookup, s256)
        IN IF Truthy(witness_script)
           THEN [o1 EXCEPT !.witness_script = witness_script,
                           !.named_pubs = AddNamedPubs(o.named_pubs, witness_script[1], pubkey_lookup)]
           ELSE o1
    ELSE IF is_p2sh(spk) THEN
        [o1 EXCEPT !.named_pubs = AddNamedPubs(o.named_pubs, rs, pubkey_lookup)]
    ELSE IF is_p2pkh(spk) THEN
        [o1 EXCEPT !.named_pubs = AddNamedPub(o.named_pubs, spk[3].data, pubkey_lookup)]
    ELSE o1

\* PSBTOut.combine with the witness script branch reading the redeem script of
\* the other output
PSBTOut_combine_CopiesRedeem(self, other) ==
    [self EXCEPT
        !.redeem_script = IF self.redeem_script = None /\ Truthy(other.redeem_script)
                          THEN other.redeem_script ELSE @,
        !.witness_script = IF self.witness_script = None /\ Truthy(other.redeem_script)
                           THEN other.redeem_script ELSE @,
        !.named_pubs = Merge(other.named_pubs, self.named_pubs),
        !.extra_map = Merge(other.extra_map, self.extra_map)]

\* PSBTOut.combine: the receiver afterwards
PSBTOut_combine(self, other) ==
    [self EXCEPT
        !.redeem_script = IF self.redeem_script = None /\ Truthy(other.redeem_script)
                          THEN other.redeem_script ELSE @,
        !.witness_script = IF self.witness_script = None /\ Truthy(other.witness_script)
                           THEN other.witness_script ELSE @,
        !.named_pubs = Merge(other.named_pubs, self.named_pubs),
        !.extra_map = Merge(other.extra_map, self.extra_map)]

-----------------------------------------------------------------------------
(* NamedHDPublicKey and PSBT (psbt.py) *)

\* HDPublicKey.child: the points of an HD tree are named by their path from
\* the root key of the signer, <<s>> being the root point of signer s
child(hd_pub, index) ==
    [point |-> Append(hd_pub.point, index), root_fingerprint |-> hd_pub.root_fingerprint,
     root_path |-> Append(hd_pub.root_path, index)]

\* the raw path: the root fingerprint followed by the path
raw_path(k) == <<k.root_fingerprint>> \o k.root_path

\* NamedHDPublicKey.is_ancestor
is_ancestor(hd_pub, named_pub) ==
    /\ Len(raw_path(hd_pub)) <= Len(raw_path(named_pub))
    /\ SubSeq(raw_path(named_pub), 1, Len(raw_path(hd_pub))) = raw_path(hd_pub)

RECURSIVE Descend(_, _)
\* the while loop of verify_descendent
Descend(current, remainder) ==
    IF remainder = <<>> THEN current
    ELSE Descend(child(current, Head(remainder)), Tail(remainder))

\* NamedHDPublicKey.verify_descendent, for an ancestor
verify_descendent(hd_pub, named_pub) ==
    Descend(hd_pub, SubSeq(raw_path(named_pub), Len(raw_path(hd_pub)) + 1, Len(raw_path(named_pub)))).point
        = named_pub.point

\* the root key of signer s as a global extended key
RootHDPublicKey(s) == [point |-> <<s>>, root_fingerprint |-> s, root_path |-> <<>>]

\* Tx.check_sig_legacy / Tx.check_sig_segwit: the signature is the key's
\* signature over the signature hash computed with these scripts
check_sig(i, b, sig, alg, redeem_script, witness_script) ==
    sig = Signature(i, b[2], alg, redeem_script, witness_script)

\* the block "validate the signatures" of PSBT.validate for input i
SigsValid(i, p) ==
    \A j \in DOMAIN p.sigs :
        IF Truthy(p.prev_tx)
        THEN check_sig(i, p.sigs[j].sec, p.sigs[j].sig, "legacy", p.redeem_script, None)
        ELSE IF Truthy(p.prev_out)
        THEN check_sig(i, p.sigs[j].sec, p.sigs[j].sig, "segwit", p.redeem_script, p.witness_script)
        ELSE TRUE

\* Tx.clone: a copy of the transaction whose inputs carry no unlocking data
clone(tx_obj) ==
    [tx_obj EXCEPT !.tx_ins = [i \in DOMAIN tx_obj.tx_ins |->
                                 [prev_tx |-> tx_obj.tx_ins[i].prev_tx,
                                  prev_index |-> tx_obj.tx_ins[i].prev_index,
                                  script_sig |-> Some(<<>>), witness |-> <<>>]]]

\* the ScriptPubKey an input spends, as the transaction model reports it
SpentBy(tx_in) ==
    ScriptPubKeyOf(CHOOSE k \in OutputKinds : TxId(k) = tx_in.prev_tx)

\* the public keys of a multisig script, in script order
KeysOf(script) == SelectSeq(script, IsData)

\* OP_CHECKMULTISIG: as many signatures as the script asks for, each valid
\* for a key of the script, in the order of the keys
CheckMultisig(i, script, sigs, alg, redeem_script, witness_script) ==
    /\ script # <<>>
    /\ IsOp(script[1])
    /\ Len(sigs) = op_code_to_number(script[1])
    /\ \E f \in [DOMAIN sigs -> DOMAIN KeysOf(script)] :
         /\ \A j, k \in DOMAIN sigs : j < k => f[j] < f[k]
         /\ \A j \in DOMAIN sigs :
              check_sig(i, KeysOf(script)[f[j]].data, sigs[j], alg, redeem_script, witness_script)

\* a witness <<signature, key>> for a key hash
CheckWitnessKey(i, witness, h160, redeem_script) ==
    /\ Len(witness) = 2
    /\ hash160(witness[2]) = h160
    /\ check_sig(i, witness[2], witness[1], "segwit", redeem_script, None)

\* a witness <<0x00, signatures, serialized WitnessScript>> for a script hash
CheckWitnessScript(i, witness, s256, redeem_script) ==
    /\ Len(witness) >= 2
    /\ witness[1] = ZeroByte
    /\ witness[Len(witness)][1] = "raw"
    /\ sha256(witness[Len(witness)]) = s256
    /\ CheckMultisig(i, witness[Len(witness)][2], SubSeq(witness, 2, Len(witness) - 1),
                     "segwit", redeem_script, Some(witness[Len(witness)][2]))

\* Tx.verify_input: the unlocking data of input i satisfies the ScriptPubKey
\* it spends; an input without unlocking script does not verify
verify_input(tx_obj, i) ==
    LET tx_in == tx_obj.tx_ins[i]
        spk == SpentBy(tx_in)
        script_sig == tx_in.script_sig[1]
        last_cmd == script_sig[Len(script_sig)]
        rs == last_cmd.data[2]
    IN
    IF tx_in.script_sig = None THEN FALSE
    ELSE IF is_p2pkh(spk) THEN
        /\ Len(script_sig) = 2
        /\ IsData(script_sig[1]) /\ IsData(script_sig[2])
        /\ hash160(script_sig[2].data) = spk[3].data
        /\ check_sig(i, script_sig[2].data, script_sig[1].data, "legacy", None, None)
    ELSE IF is_p2wpkh(spk) THEN
        script_sig = <<>> /\ CheckWitnessKey(i, tx_in.witness, spk[2].data, None)
    ELSE IF is_p2wsh(spk) THEN
        script_sig = <<>> /\ CheckWitnessScript(i, tx_in.witness, spk[2].data, None)
    ELSE IF is_p2sh(spk) THEN
        /\ script_sig # <<>>
        /\ IsData(last_cmd) /\ last_cmd.data[1] = "raw"
        /\ hash160(last_cmd.data) = spk[2].data
        /\ IF is_p2wpkh(rs)
           THEN Len(script_sig) = 1 /\ CheckWitnessKey(i, tx_in.witness, rs[2].data, Some(rs))
           ELSE IF is_p2wsh(rs)
           THEN Len(script_sig) = 1 /\ CheckWitnessScript(i, tx_in.witness, rs[2].data, Some(rs))
           ELSE /\ script_sig[1] = Op(OP_0)
                /\ \A j \in 2..(Len(script_sig) - 1) : IsData(script_sig[j])
                /\ CheckMultisig(i, rs,
                                 [j \in 1..(Len(script_sig) - 2) |-> script_sig[j + 1].data],
                                 "legacy", Some(rs), None)
    ELSE FALSE

\* Tx.verify
verify(tx_obj) == \A i \in DOMAIN tx_obj.tx_ins : verify_input(tx_obj, i)

\* "for hd_pub in self.hd_pubs.values()": a dict iterates in insertion order.
\* The global keys of a constructed or parsed PSBT are inserted in ascending
\* order of their key number; a combine may order them otherwise, in
\* scenarios where no annotation has two ancestors.
FirstAncestor(ancestors) ==
    CHOOSE x \in ancestors : \A y \in ancestors : x[2] <= y[2]

\* the blocks "validate the NamedPublicKeys" of PSBT.validate: only the first
\* ancestor met while iterating over the global keys is verified (break)
NamedPubsValid(named_pubs, hd_pubs) ==
    \A b \in DOMAIN named_pubs :
        LET ancestors == {x \in DOMAIN hd_pubs : is_ancestor(hd_pubs[x], named_pubs[b])}
        IN ancestors # {} =>
             verify_descendent(hd_pubs[FirstAncestor(ancestors)], named_pubs[b])

\* the body of the loop over the outputs of PSBT.validate
OutputErr(o, hd_pubs) ==
    IF PSBTOut_validate(o) # "ok" THEN PSBTOut_validate(o)
    ELSE IF ~NamedPubsValid(o.named_pubs, hd_pubs) THEN "ValueError"
    ELSE "ok"

\* the exception that ends the loop over the outputs, "ok" if none
OutputsErr(psbt) ==
    LET failing == {i \in DOMAIN psbt.psbt_outs : OutputErr(psbt.psbt_outs[i], psbt.hd_pubs) # "ok"}
    IN IF failing = {} THEN "ok"
       ELSE OutputErr(psbt.psbt_outs[CHOOSE i \in failing : \A j \in failing : i <= j], psbt.hd_pubs)

\* the block "validate the ScriptSig" of PSBT.validate for input i: the
\* unlocking data of the PSBTIn is installed on the transaction input and
\* verified
ScriptSigValid(tx_obj, i, p) ==
    Truthy(p.script_sig) =>
        verify_input([tx_obj EXCEPT !.tx_ins[i] =
                        [prev_tx |-> tx_obj.tx_ins[i].prev_tx,
                         prev_index |-> tx_obj.tx_ins[i].prev_index,
                         script_sig |-> p.script_sig,
                         witness |-> IF Truthy(p.witness) THEN p.witness[1] ELSE <<>>]], i)

\* "if tx_in.script_sig.commands": the input of the skeleton carries an
\* unlocking script.  Where the skeleton is written without unlocking data
\* its inputs carry none.
ScriptSigDefined(tx_in) ==
    "script_sig" \in DOMAIN tx_in /\ tx_in.script_sig[1] # <<>>

\* PSBT.validate comparing the number of inputs only
PSBT_validate_InputCountOnly(psbt) ==
    IF Len(psbt.tx_obj.tx_ins) # Len(psbt.psbt_ins) THEN "ValueError"
    ELSE IF \E i \in DOMAIN psbt.psbt_ins :
              \/ PSBTIn_validate(psbt.psbt_ins[i]) # "ok"
              \/ ScriptSigDefined(psbt.tx_obj.tx_ins[i])
              \/ ~ScriptSigValid(psbt.tx_obj, i, psbt.psbt_ins[i])
              \/ ~SigsValid(i, psbt.psbt_ins[i])
              \/ ~NamedPubsValid(psbt.psbt_ins[i].named_pubs, psbt.hd_pubs)
         THEN "ValueError"
    ELSE OutputsErr(psbt)

\* PSBT.validate: "ok" or the exception raised
PSBT_validate(psbt) ==
    IF Len(psbt.tx_obj.tx_ins) # Len(psbt.psbt_ins) THEN "ValueError"
    ELSE IF \E i \in DOMAIN psbt.psbt_ins :
              \/ PSBTIn_validate(psbt.psbt_ins[i]) # "ok"
              \/ ScriptSigDefined(psbt.tx_obj.tx_ins[i])
              \/ ~ScriptSigValid(psbt.tx_obj, i, psbt.psbt_ins[i])
              \/ ~SigsValid(i, psbt.psbt_ins[i])
              \/ ~NamedPubsValid(psbt.psbt_ins[i].named_pubs, psbt.hd_pubs)
         THEN "ValueError"
    ELSE IF Len(psbt.tx_obj.tx_outs) # Len(psbt.psbt_outs) THEN "ValueError"
    ELSE OutputsErr(psbt)

\* PSBT.__init__
PSBT_init(tx_obj, psbt_ins, psbt_outs, hd_pubs, extra_map) ==
    [tx_obj |-> tx_obj, psbt_ins |-> psbt_ins, psbt_outs |-> psbt_outs,
     hd_pubs |-> hd_pubs, extra_map |-> extra_map]

\* a loop "for x in xs: x.f()" that the first exception leaves: results[i] is
\* the outcome of the call on xs[i]; the elements after the failing one are
\* not reached
FirstFailure(results) ==
    IF \E i \in DOMAIN results : results[i].err # "ok"
    THEN CHOOSE i \in DOMAIN results :
            /\ results[i].err # "ok"
            /\ \A j \in DOMAIN results : results[j].err # "ok" => i <= j
    ELSE Len(results) + 1

LoopUntilFailure(xs, results) ==
    [i \in DOMAIN xs |-> IF i <= FirstFailure(results) THEN results[i].p ELSE xs[i]]

LoopErr(results) ==
    IF FirstFailure(results) <= Len(results) THEN results[FirstFailure(results)].err ELSE "ok"

\* PSBT.update reading tx_lookup[prev_tx] instead of tx_lookup.get(prev_tx):
\* a transaction the table lacks raises a KeyError
PSBT_update_IndexesTxLookup(psbt, tx_lookup, pubkey_lookup, redeem_lookup, witness_lookup) ==
    LET results == [i \in DOMAIN psbt.psbt_ins |->
                       IF ~Truthy(psbt.psbt_ins[i].prev_tx)
                          /\ Get(tx_lookup, psbt.psbt_ins[i].tx_in.prev_tx) = None
                       THEN [p |-> psbt.psbt_ins[i], err |-> "KeyError"]
                       ELSE PSBTIn_update(psbt.psbt_ins[i], tx_lookup, pubkey_lookup,
                                          redeem_lookup, witness_lookup)]
    IN [psbt |-> [psbt EXCEPT
                    !.psbt_ins = LoopUntilFailure(psbt.psbt_ins, results),
                    !.psbt_outs = IF LoopErr(results) = "ok"
                                  THEN [i \in DOMAIN psbt.psbt_outs |->
                                          PSBTOut_update(psbt.psbt_outs[i], pubkey_lookup,
                                                         redeem_lookup, witness_lookup)]
                                  ELSE @],
        err |-> LoopErr(results)]

\* PSBT.update: the PSBT afterwards and the exception raised ("ok" if none)
PSBT_update(psbt, tx_lookup, pubkey_lookup, redeem_lookup, witness_lookup) ==
    LET results == [i \in DOMAIN psbt.psbt_ins |->
                       PSBTIn_update(psbt.psbt_ins[i], tx_lookup, pubkey_lookup,
                                     redeem_lookup, witness_lookup)]
    IN [psbt |-> [psbt EXCEPT
                    !.psbt_ins = LoopUntilFailure(psbt.psbt_ins, results),
                    !.psbt_outs = IF LoopErr(results) = "ok"
                                  THEN [i \in DOMAIN psbt.psbt_outs |->
                                          PSBTOut_update(psbt.psbt_outs[i], pubkey_lookup,
                                                         redeem_lookup, witness_lookup)]
                                  ELSE @],
        err |-> LoopErr(results)]

\* the assignment to psbt_in.sigs replacing the dict by one with the new
\* signature alone
SignInput_ReplacesSigs(i, p, point) ==
    IF Truthy(p.prev_tx)
    THEN [p |-> [p EXCEPT !.sigs = OPut(<<>>, sec(point),
                                        Signature(i, point, "legacy", p.redeem_script, None))],
          err |-> "ok"]
    ELSE IF Truthy(p.prev_out)
    THEN [p |-> [p EXCEPT !.sigs = OPut(<<>>, sec(point),
                                        Signature(i, point, "segwit", p.redeem_script, p.witness_script))],
          err |-> "ok"]
    ELSE [p |-> p, err |-> "ValueError"]

\* the signature an input gets from a private key: legacy with a previous
\* transaction, segwit with a previous output
SignInput(i, p, point) ==
    IF Truthy(p.prev_tx)
    THEN [p |-> [p EXCEPT !.sigs = OPut(p.sigs, sec(point),
                                        Signature(i, point, "legacy", p.redeem_script, None))],
          err |-> "ok"]
    ELSE IF Truthy(p.prev_out)
    THEN [p |-> [p EXCEPT !.sigs = OPut(p.sigs, sec(point),
                                        Signature(i, point, "segwit", p.redeem_script, p.witness_script))],
          err |-> "ok"]
    ELSE [p |-> p, err |-> "ValueError"]

RECURSIVE SignNamedPubs(_, _, _, _)
\* the loop of PSBT.sign over the named_pubs of one input
SignNamedPubs(i, p, named_pubs, fingerprint) ==
    IF named_pubs = {} THEN [p |-> p, err |-> "ok"]
    ELSE LET named_pub == CHOOSE n \in named_pubs : TRUE
             signed == IF named_pub.root_fingerprint = fingerprint
                       THEN SignInput(i, p, <<fingerprint>> \o named_pub.root_path)
                       ELSE [p |-> p, err |-> "ok"]
         IN IF signed.err # "ok" THEN signed
            ELSE SignNamedPubs(i, signed.p, named_pubs \ {named_pub}, fingerprint)

\* PSBT.sign with the HD private key of the signer with this fingerprint
PSBT_sign(psbt, fingerprint) ==
    LET results == [i \in DOMAIN psbt.psbt_ins |->
                       SignNamedPubs(i, psbt.psbt_ins[i],
                                     {psbt.psbt_ins[i].named_pubs[b] : b \in DOMAIN psbt.psbt_ins[i].named_pubs},
                                     fingerprint)]
    IN [psbt |-> [psbt EXCEPT !.psbt_ins = LoopUntilFailure(psbt.psbt_ins, results)],
        err |-> LoopErr(results)]

\* PSBT.sign_with_private_keys with the single private key of this point
PSBT_sign_with_private_keys(psbt, point) ==
    LET results == [i \in DOMAIN psbt.psbt_ins |->
                       IF Get(psbt.psbt_ins[i].named_pubs, sec(point)) # None
                       THEN SignInput(i, psbt.psbt_ins[i], point)
                       ELSE [p |-> psbt.psbt_ins[i], err |-> "ok"]]
    IN [psbt |-> [psbt EXCEPT !.psbt_ins = LoopUntilFailure(psbt.psbt_ins, results)],
        err |-> LoopErr(results)]

\* PSBT.combine without the merge of the global keys
PSBT_combine_KeepsHDPubs(self, other) ==
    IF self.tx_obj.hash # other.tx_obj.hash THEN [psbt |-> self, err |-> "ValueError"]
    ELSE [psbt |-> [self EXCEPT
                      !.extra_map = Merge(other.extra_map, self.extra_map),
                      !.psbt_ins = [i \in DOMAIN self.psbt_ins |->
                                      IF i \in DOMAIN other.psbt_ins
                                      THEN PSBTIn_combine(self.psbt_ins[i], other.psbt_ins[i])
                                      ELSE self.psbt_ins[i]],
                      !.psbt_outs = [i \in DOMAIN self.psbt_outs |->
                                      IF i \in DOMAIN other.psbt_outs
                                      THEN PSBTOut_combine(self.psbt_outs[i], other.psbt_outs[i])
                                      ELSE self.psbt_outs[i]]],
          err |-> "ok"]

\* PSBT.combine letting the unknown entries of the other PSBT win
PSBT_combine_OtherExtraWins(self, other) ==
    IF self.tx_obj.hash # other.tx_obj.hash THEN [psbt |-> self, err |-> "ValueError"]
    ELSE [psbt |-> [self EXCEPT
                      !.hd_pubs = Merge(other.hd_pubs, self.hd_pubs),
                      !.extra_map = Merge(self.extra_map, other.extra_map),
                      !.psbt_ins = [i \in DOMAIN self.psbt_ins |->
                                      IF i \in DOMAIN other.psbt_ins
                                      THEN PSBTIn_combine(self.psbt_ins[i], other.psbt_ins[i])
                                      ELSE self.psbt_ins[i]],
                      !.psbt_outs = [i \in DOMAIN self.psbt_outs |->
                                      IF i \in DOMAIN other.psbt_outs
                                      THEN PSBTOut_combine(self.psbt_outs[i], other.psbt_outs[i])
                                      ELSE self.psbt_outs[i]]],
          err |-> "ok"]

\* PSBT.combine comparing the transaction hashes after it has merged the
\* global maps
PSBT_combine_ChecksHashLast(self, other) ==
    LET merged == [self EXCEPT !.hd_pubs = Merge(other.hd_pubs, self.hd_pubs),
                               !.extra_map = Merge(other.extra_map, self.extra_map)]
    IN IF self.tx_obj.hash # other.tx_obj.hash THEN [psbt |-> merged, err |-> "ValueError"]
       ELSE [psbt |-> [merged EXCEPT
                         !.psbt_ins = [i \in DOMAIN self.psbt_ins |->
                                         IF i \in DOMAIN other.psbt_ins
                                         THEN PSBTIn_combine(self.psbt_ins[i], other.psbt_ins[i])
                                         ELSE self.psbt_ins[i]],
                         !.psbt_outs = [i \in DOMAIN self.psbt_outs |->
                                         IF i \in DOMAIN other.psbt_outs
                                         THEN PSBTOut_combine(self.psbt_outs[i], other.psbt_outs[i])
                                         ELSE self.psbt_outs[i]]],
             err |-> "ok"]

\* PSBT.combine: the receiver afterwards and the exception raised ("ok" if none)
PSBT_combine(self, other) ==
    IF self.tx_obj.hash # other.tx_obj.hash THEN [psbt |-> self, err |-> "ValueError"]
    ELSE [psbt |-> [self EXCEPT
                      !.hd_pubs = Merge(other.hd_pubs, self.hd_pubs),
                      !.extra_map = Merge(other.extra_map, self.extra_map),
                      !.psbt_ins = [i \in DOMAIN self.psbt_ins |->
                                      IF i \in DOMAIN other.psbt_ins
                                      THEN PSBTIn_combine(self.psbt_ins[i], other.psbt_ins[i])
                                      ELSE self.psbt_ins[i]],
                      !.psbt_outs = [i \in DOMAIN self.psbt_outs |->
                                      IF i \in DOMAIN other.psbt_outs
                                      THEN PSBTOut_combine(self.psbt_outs[i], other.psbt_outs[i])
                                      ELSE self.psbt_outs[i]]],
          err |-> "ok"]

\* PSBT.finalize that goes on with the next input after one that cannot be
\* finalized and raises at the end
PSBT_finalize_SkipsFailing(psbt) ==
    LET results == [i \in DOMAIN psbt.psbt_ins |-> PSBTIn_finalize(psbt.psbt_ins[i])]
    IN [psbt |-> [psbt EXCEPT !.psbt_ins = [i \in DOMAIN results |-> results[i].p]],
        err |-> LoopErr(results)]

\* PSBT.finalize: the PSBT afterwards and the exception raised ("ok" if none)
PSBT_finalize(psbt) ==
    LET results == [i \in DOMAIN psbt.psbt_ins |-> PSBTIn_finalize(psbt.psbt_ins[i])]
    IN [psbt |-> [psbt EXCEPT !.psbt_ins = LoopUntilFailure(psbt.psbt_ins, results)],
        err |-> LoopErr(results)]

-----------------------------------------------------------------------------
(* PSBT.final_tx *)

\* the clone of final_tx after the loop that installs the unlocking data
Installed(psbt) ==
    LET segwit == \E i \in DOMAIN psbt.psbt_ins : Truthy(psbt.psbt_ins[i].witness)
    IN [clone(psbt.tx_obj) EXCEPT
          !.tx_ins = [i \in DOMAIN @ |->
                        [@[i] EXCEPT !.script_sig = psbt.psbt_ins[i].script_sig,
                                     !.witness = IF segwit /\ Truthy(psbt.psbt_ins[i].witness)
                                                 THEN psbt.psbt_ins[i].witness[1]
                                                 ELSE <<>>]]]

\* PSBT.final_tx returning the clone without verifying it
PSBT_final_tx_Unverified(psbt) ==
    [tx |-> Some(Installed(psbt)), err |-> "ok"]

\* PSBT.final_tx: the transaction returned, if any, and the exception raised
PSBT_final_tx(psbt) ==
    IF ~verify(Installed(psbt)) THEN [tx |-> None, err |-> "RuntimeError"]
    ELSE [tx |-> Some(Installed(psbt)), err |-> "ok"]

-----------------------------------------------------------------------------
(* Construction *)

\* what a serialized PSBT can carry besides the transaction before any
\* update: a declared hash type, unknown key/value pairs and global keys
ExtraKey(n) == <<"unknown", n>>
ParsedProfiles ==
    {[hash_type |-> None, extra_map |-> <<>>, hd_pubs |-> <<>>],
     [hash_type |-> Some(1), extra_map |-> [k \in {ExtraKey(1)} |-> "a"],
      hd_pubs |-> [k \in {<<"xpub", 1>>} |-> RootHDPublicKey(1)]],
     [hash_type |-> None, extra_map |-> [k \in {ExtraKey(2)} |-> "b"],
      hd_pubs |-> [k \in {<<"xpub", 2>>} |-> RootHDPublicKey(2)]]}

PlainProfiles == {[hash_type |-> None, extra_map |-> <<>>, hd_pubs |-> <<>>]}

\* the previous transaction an input refers to
PrevTxOf(tx_in) == PrevTx(CHOOSE k \in OutputKinds : TxId(k) = tx_in.prev_tx)

\* a signature of a key that is in no script, as a serialized PSBT may carry
ForeignSigs(i) ==
    {<<>>} \cup {<<[sec |-> sec(ForeignPoint), sig |-> Signature(i, ForeignPoint, alg, None, None)]>> :
                    alg \in {"legacy", "segwit"}}

\* the PSBTIn objects the constructor accepts for input i
PSBTIns(i, tx_in, prof) ==
    {p \in {PSBTIn_init(tx_in, prev_tx, prev_out, sigs, prof.hash_type, prof.extra_map) :
               prev_tx \in {None, Some(PrevTxOf(tx_in))},
               prev_out \in {None, Some(PrevTxOf(tx_in).tx_outs[tx_in.prev_index])},
               sigs \in ForeignSigs(i)} :
        PSBTIn_init_ok(p)}

\* the PSBT objects the constructor accepts for a transaction
PSBTs(tx_obj, profiles) ==
    {psbt \in UNION {
        {PSBT_init(tx_obj, psbt_ins,
                   [i \in DOMAIN tx_obj.tx_outs |-> PSBTOut_init(tx_obj.tx_outs[i], prof.extra_map)],
                   prof.hd_pubs, prof.extra_map) :
            psbt_ins \in [DOMAIN tx_obj.tx_ins ->
                            UNION {PSBTIns(i, tx_obj.tx_ins[i], prof) : i \in DOMAIN tx_obj.tx_ins}]} :
        prof \in profiles} :
        /\ \A i \in DOMAIN psbt.psbt_ins : psbt.psbt_ins[i].tx_in = psbt.tx_obj.tx_ins[i]
        /\ PSBT_validate(psbt) = "ok"}

NoCall == [op |-> "none", c |-> 0, err |-> "ok", pre |-> <<>>, was |-> {}]

\* two copies of one constructed or parsed PSBT
Init ==
    /\ \E tx_obj \in TxObjs : \E psbt \in PSBTs(tx_obj, PlainProfiles) :
         psbts = [c \in {1, 2} |-> psbt]
    /\ finalized = {}
    /\ last = NoCall
    /\ steps = MaxSteps

\* an updater holds two copies of one constructed or parsed PSBT
InitUpdater ==
    /\ \E tx_obj \in TxObjs : \E psbt \in PSBTs(tx_obj, PlainProfiles) :
         psbts = [c \in {1, 2} |-> psbt]
    /\ finalized = {}
    /\ last = NoCall
    /\ steps = MaxUpdaterSteps

\* the PSBT of a profile over a transaction, constructed without provenance
\* and completed by an updater who knows everything
UpdatedPSBT(tx_obj, prof) ==
    PSBT_update(
        PSBT_init(tx_obj,
                  [i \in DOMAIN tx_obj.tx_ins |->
                      PSBTIn_init(tx_obj.tx_ins[i], None, None, <<>>, prof.hash_type, prof.extra_map)],
                  [i \in DOMAIN tx_obj.tx_outs |-> PSBTOut_init(tx_obj.tx_outs[i], prof.extra_map)],
                  prof.hd_pubs, prof.extra_map),
        TxLookup(TRUE), PubkeyLookup(Signers), RedeemLookup(TRUE), WitnessLookup(TRUE)).psbt

\* three signers hold a copy each of an updated PSBT and have signed it with
\* their own key; each copy carries what its holder's software added to it
\* (a profile)
InitSigners ==
    /\ \E tx_obj \in TxObjs : \E profs \in [{1, 2, 3} -> ParsedProfiles] :
         /\ \A c, d \in {1, 2, 3} : c # d => profs[c] # profs[d]
         /\ profs[1].hash_type # None
         /\ profs[3].hd_pubs = <<>>
         /\ psbts = [c \in {1, 2, 3} |-> PSBT_sign(UpdatedPSBT(tx_obj, profs[c]), c).psbt]
         /\ \A i \in DOMAIN tx_obj.tx_ins : \A c \in {1, 2, 3} :
              script_pubkey(psbts[c].psbt_ins[i]) # None
         /\ \A c \in {1, 2, 3} : PSBT_validate(psbts[c]) = "ok"
    /\ finalized = {}
    /\ last = NoCall
    /\ steps = MaxSignerSteps

\* what the software of parties that never exchanged anything puts into a
\* PSBT: entries under other keys or, under the same keys, another value of
\* an unknown entry, another origin for the same extended key and for the
\* same annotated key, another signature
PartyProfiles ==
    {[extra_map |-> [k \in {ExtraKey(1)} |-> "a"],
      hd_pubs |-> [k \in {<<"xpub", 1>>} |-> RootHDPublicKey(1)],
      named_pubs |-> [b \in {sec(Point(1))} |-> NamedPublicKey(1)],
      alg |-> "legacy"],
     [extra_map |-> [k \in {ExtraKey(1)} |-> "b"],
      hd_pubs |-> [k \in {<<"xpub", 1>>} |-> [RootHDPublicKey(1) EXCEPT !.root_fingerprint = 4]],
      named_pubs |-> [b \in {sec(Point(1))} |-> [NamedPublicKey(1) EXCEPT !.root_fingerprint = 4]],
      alg |-> "segwit"],
     [extra_map |-> [k \in {ExtraKey(2)} |-> "a"],
      hd_pubs |-> [k \in {<<"xpub", 2>>} |-> RootHDPublicKey(2)],
      named_pubs |-> [b \in {sec(Point(2))} |-> NamedPublicKey(2)],
      alg |-> "legacy"]}

\* the transactions of the parties
PartyTxObjs == {TxObj(<<k>>, <<k>>) : k \in {"p2pkh", "p2wsh"}}

\* the PSBT a party's software builds for a transaction, without provenance
PartyPSBT(tx_obj, prof) ==
    PSBT_init(tx_obj,
              [i \in DOMAIN tx_obj.tx_ins |->
                  PSBTIn_init_with(tx_obj.tx_ins[i], None, None,
                                   <<[sec |-> sec(ForeignPoint),
                                      sig |-> Signature(i, ForeignPoint, prof.alg, None, None)]>>,
                                   None, None, None, prof.named_pubs, prof.extra_map)],
              [i \in DOMAIN tx_obj.tx_outs |-> PSBTOut_init(tx_obj.tx_outs[i], prof.extra_map)],
              prof.hd_pubs, prof.extra_map)

\* two parties hold a PSBT each, over the same transaction or over two
\* different ones
InitParties ==
    /\ \E txs \in [{1, 2} -> PartyTxObjs] : \E profs \in [{1, 2} -> PartyProfiles] :
         /\ psbts = [c \in {1, 2} |-> PartyPSBT(txs[c], profs[c])]
         /\ \A c \in {1, 2} :
              /\ \A i \in DOMAIN psbts[c].psbt_ins : PSBTIn_init_ok(psbts[c].psbt_ins[i])
              /\ PSBT_validate(psbts[c]) = "ok"
    /\ finalized = {}
    /\ last = NoCall
    /\ steps = MaxPartySteps

\* the transactions with two inputs
FinalTxObjs == {TxObj(<<k1, k2>>, <<k1>>) : k1, k2 \in InputKinds}

\* one copy of a PSBT over a transaction with two inputs, parsed with or
\* without a signature of a foreign key on its inputs, completed by an updater
\* who knows everything and signed by the first signer
InitFinal ==
    /\ \E tx_obj \in FinalTxObjs : \E alg \in {"none", "legacy", "segwit"} :
         LET sigs(i) == IF alg = "none" THEN <<>>
                        ELSE <<[sec |-> sec(ForeignPoint),
                                sig |-> Signature(i, ForeignPoint, alg, None, None)]>>
             psbt == PSBT_init(tx_obj,
                               [i \in DOMAIN tx_obj.tx_ins |->
                                   PSBTIn_init(tx_obj.tx_ins[i], None, None, sigs(i), None, <<>>)],
                               [i \in DOMAIN tx_obj.tx_outs |-> PSBTOut_init(tx_obj.tx_outs[i], <<>>)],
                               <<>>, <<>>)
             updated == PSBT_update(psbt, TxLookup(TRUE), PubkeyLookup(Signers),
                                    RedeemLookup(TRUE), WitnessLookup(TRUE)).psbt
         IN psbts = [c \in {1} |-> PSBT_sign(updated, 1).psbt]
    /\ finalized = {}
    /\ last = NoCall
    /\ steps = MaxFinalSteps

\* a script that is behind no output of the scenarios
OtherMultisig == <<Op(81), Data(sec(ForeignPoint)), Op(81), Op(OP_CHECKMULTISIG)>>

\* the redeem scripts, witness scripts and key annotations a caller may hand
\* to the constructor of an input
RedeemCandidates ==
    {None} \cup {RedeemScriptOf(k) : k \in RedeemKinds}
           \cup {Some(OtherMultisig),
                 Some(P2WPKHScriptPubKey(hash160(sec(Point(2))))),
                 Some(P2WSHScriptPubKey(WitnessScript_sha256(OtherMultisig)))}

WitnessCandidates == {None, Some(MultisigScript), Some(OtherMultisig)}

NamedPubsOf(S) == [b \in {sec(Point(s)) : s \in S} |->
                     NamedPublicKey(CHOOSE s \in S : sec(Point(s)) = b)]

NamedPubCandidates == {NamedPubsOf(S) : S \in {{}, {1}, {2}, {4}, {1, 2}}}

\* global extended keys that claim the fingerprint of signer 1 without being
\* the signer's root key
BogusHDPublicKey(n) == [point |-> <<n>>, root_fingerprint |-> 1, root_path |-> <<>>]

HDPubsOf(N) == [k \in {<<"xpub", n>> : n \in N} |->
                  IF k[2] = 1 THEN RootHDPublicKey(1) ELSE BogusHDPublicKey(k[2])]

HDPubCandidates == {HDPubsOf(N) : N \in {{}, {1}, {0}, {0, 1}, {1, 5}}}

\* PSBTOut.__init__ called with key annotations
PSBTOut_init_with(tx_out, named_pubs) ==
    [PSBTOut_init(tx_out, <<>>) EXCEPT !.named_pubs = named_pubs]

\* the arguments of PSBT.__init__ over a transaction with one input whose
\* input record is built from every combination of provenance, scripts and
\* key annotations
InputArguments ==
    {PSBT_init(tx_obj,
               <<PSBTIn_init_with(tx_obj.tx_ins[1], prev[1], prev[2], <<>>, None, rs, ws, pubs, <<>>)>>,
               <<PSBTOut_init(tx_obj.tx_outs[1], <<>>)>>, <<>>, <<>>) :
        tx_obj \in {TxObj(<<k>>, <<"p2pkh">>) : k \in InputKinds},
        prev \in {<<None, None>>, <<Some(TRUE), None>>, <<None, Some(TRUE)>>},
        rs \in RedeemCandidates, ws \in WitnessCandidates, pubs \in NamedPubCandidates}

\* the provenance argument standing for "the previous transaction" or "the
\* previous output" replaced by that transaction or output
WithProvenance(psbt) ==
    [psbt EXCEPT !.psbt_ins = [i \in DOMAIN @ |->
        [@[i] EXCEPT !.prev_tx = IF @ = None THEN None ELSE Some(PrevTxOf(psbt.psbt_ins[i].tx_in)),
                     !.prev_out = IF @ = None THEN None
                                  ELSE Some(PrevTxOf(psbt.psbt_ins[i].tx_in).tx_outs[
                                              psbt.psbt_ins[i].tx_in.prev_index])]]]

\* the arguments of PSBT.__init__ with global extended keys and annotated
\* keys on the input or on the output
KeyArguments ==
    {PSBT_init(TxObj(<<"p2pkh">>, <<"p2pkh">>),
               <<PSBTIn_init_with(TxObj(<<"p2pkh">>, <<"p2pkh">>).tx_ins[1], Some(PrevTx("p2pkh")), None,
                                  <<>>, None, None, None, in_pubs, <<>>)>>,
               <<PSBTOut_init_with(TxObj(<<"p2pkh">>, <<"p2pkh">>).tx_outs[1], out_pubs)>>,
               hd_pubs, <<>>) :
        in_pubs \in {NamedPubsOf({}), NamedPubsOf({1})},
        out_pubs \in {NamedPubsOf({}), NamedPubsOf({1})},
        hd_pubs \in HDPubCandidates}

\* PSBTOut.__init__ called with scripts and key annotations
PSBTOut_init_scripts(tx_out, redeem_script, witness_script, named_pubs) ==
    [PSBTOut_init(tx_out, <<>>) EXCEPT !.redeem_script = redeem_script,
                                     !.witness_script = witness_script,
                                     !.named_pubs = named_pubs]

\* the arguments of PSBT.__init__ over a transaction with one output whose
\* output record is built from every combination of scripts and key
\* annotations
OutputArguments ==
    {PSBT_init(tx_obj,
               <<PSBTIn_init(tx_obj.tx_ins[1], None, None, <<>>, None, <<>>)>>,
               <<PSBTOut_init_scripts(tx_obj.tx_outs[1], rs, ws, pubs)>>, <<>>, <<>>) :
        tx_obj \in {TxObj(<<"p2pkh">>, <<k>>) : k \in InputKinds},
        rs \in RedeemCandidates, ws \in WitnessCandidates, pubs \in NamedPubCandidates}

\* the arguments of PSBT.__init__ with as many records as the transaction has
\* inputs and outputs, or fewer, or more
CountArguments ==
    {PSBT_init(tx_obj,
               [i \in 1..n |-> PSBTIn_init(tx_obj.tx_ins[IF i \in DOMAIN tx_obj.tx_ins THEN i ELSE 1],
                                           None, None, <<>>, None, <<>>)],
               [i \in 1..m |-> PSBTOut_init(tx_obj.tx_outs[IF i \in DOMAIN tx_obj.tx_outs THEN i ELSE 1],
                                            <<>>)],
               <<>>, <<>>) :
        tx_obj \in {TxObj(<<"p2pkh">>, <<"p2pkh">>), TxObj(<<"p2pkh", "p2wsh">>, <<"p2pkh", "p2wsh">>)},
        n \in 0..3, m \in 0..3}

\* a caller is about to construct a PSBT from its arguments
InitConstruct ==
    /\ \E psbt \in {WithProvenance(a) : a \in InputArguments} \cup OutputArguments
                        \cup KeyArguments \cup CountArguments :
         psbts = [c \in {1} |-> psbt]
    /\ finalized = {}
    /\ last = NoCall
    /\ steps = MaxConstructSteps

-----------------------------------------------------------------------------
(* Calls *)

\* the history keeps the outcome of the last call if it was a combine, a
\* finalize, a final_tx or a constructor call, or if it raised, with the inputs
\* the receiver of a finalize had before the call and which of them an earlier
\* finalize had finalized
Called(op, c, err) ==
    IF op = "finalize"
    THEN [op |-> op, c |-> c, err |-> err, pre |-> psbts[c].psbt_ins,
          was |-> {i \in DOMAIN psbts[c].psbt_ins : <<c, i>> \in finalized}]
    ELSE IF op \in {"combine", "final_tx", "init"} \/ err # "ok"
    THEN [op |-> op, c |-> c, err |-> err, pre |-> <<>>, was |-> {}]
    ELSE NoCall

Update(c) ==
    /\ steps > 0
    /\ \E l \in Lookups :
         LET r == PSBT_update(psbts[c], l.tx_lookup, l.pubkey_lookup, l.redeem_lookup, l.witness_lookup)
         IN /\ psbts' = [psbts EXCEPT ![c] = r.psbt]
            /\ last' = Called("update", c, r.err)
    /\ steps' = steps - 1
    /\ UNCHANGED finalized

Sign(c) ==
    /\ steps > 0
    /\ \E fingerprint \in Signers :
         LET r == PSBT_sign(psbts[c], fingerprint)
         IN /\ psbts' = [psbts EXCEPT ![c] = r.psbt]
            /\ last' = Called("sign", c, r.err)
    /\ steps' = steps - 1
    /\ UNCHANGED finalized

SignWithPrivateKeys(c) ==
    /\ steps > 0
    /\ \E s \in Signers :
         LET r == PSBT_sign_with_private_keys(psbts[c], Point(s))
         IN /\ psbts' = [psbts EXCEPT ![c] = r.psbt]
            /\ last' = Called("sign_with_private_keys", c, r.err)
    /\ steps' = steps - 1
    /\ UNCHANGED finalized

Combine(c) ==
    /\ steps > 0
    /\ \E d \in DOMAIN psbts :
         LET r == PSBT_combine(psbts[c], psbts[d])
         IN /\ psbts' = [psbts EXCEPT ![c] = r.psbt]
            /\ last' = Called("combine", c, r.err)
    /\ steps' = steps - 1
    /\ UNCHANGED finalized

\* the inputs a PSBT.finalize call has finalized before it returned or raised
FinalizedBy(psbt) ==
    {i \in DOMAIN psbt.psbt_ins :
        \A j \in 1..i : PSBTIn_finalize(psbt.psbt_ins[j]).err = "ok"}

Finalize(c) ==
    /\ steps > 0
    /\ LET r == PSBT_finalize(psbts[c])
       IN /\ psbts' = [psbts EXCEPT ![c] = r.psbt]
          /\ last' = Called("finalize", c, r.err)
          /\ finalized' = finalized \cup {<<c, i>> : i \in FinalizedBy(psbts[c])}
    /\ steps' = steps - 1

\* final_tx installing the unlocking data on the transaction of the PSBT
\* itself instead of on a clone
FinalTx_NoClone(c) ==
    /\ steps > 0
    /\ last' = Called("final_tx", c, PSBT_final_tx(psbts[c]).err)
    /\ psbts' = [psbts EXCEPT ![c].tx_obj = Installed(psbts[c])]
    /\ steps' = steps - 1
    /\ UNCHANGED finalized

\* final_tx works on a clone: the PSBT stays as it is
FinalTx(c) ==
    /\ steps > 0
    /\ last' = Called("final_tx", c, PSBT_final_tx(psbts[c]).err)
    /\ steps' = steps - 1
    /\ UNCHANGED <<psbts, finalized>>

Next ==
    \E c \in DOMAIN psbts :
        \/ Update(c)
        \/ Sign(c)
        \/ SignWithPrivateKeys(c)
        \/ Combine(c)
        \/ Finalize(c)

Spec == Init /\ [][Next]_vars

SpecSigners == InitSigners /\ [][Next]_vars

SpecParties == InitParties /\ [][Next]_vars

SpecUpdater == InitUpdater /\ [][Next]_vars

\* PSBT(tx_obj, psbt_ins, psbt_outs, hd_pubs, extra_map) with records built
\* by PSBTIn(...) and PSBTOut(...): each constructor assigns the fields and
\* calls validate, and PSBT.validate validates the records once more
Construct(c) ==
    /\ steps > 0
    /\ last' = Called("init", c, PSBT_validate(psbts[c]))
    /\ steps' = steps - 1
    /\ UNCHANGED <<psbts, finalized>>

NextConstruct == \E c \in DOMAIN psbts : Construct(c)

SpecConstruct == InitConstruct /\ [][NextConstruct]_vars

\* signing, finalizing and extracting the final transaction
NextFinal ==
    \E c \in DOMAIN psbts :
        \/ Sign(c)
        \/ Finalize(c)
        \/ FinalTx(c)

SpecFinal == InitFinal /\ [][NextFinal]_vars

\* the holder of a signed PSBT updates it, signs it, combines it with itself,
\* finalizes it and asks for the final transaction
NextSkeleton ==
    \E c \in DOMAIN psbts :
        \/ Update(c)
        \/ Sign(c)
        \/ Combine(c)
        \/ Finalize(c)
        \/ FinalTx(c)

SpecSkeleton == InitFinal /\ [][NextSkeleton]_vars

-----------------------------------------------------------------------------
(* The wire format (psbt.py: parse and serialize) *)

\* A byte stream is the sequence of its length-prefixed fields: the magic, the
\* separator, then keys and values in turn.  A key is its type byte followed
\* by its key data, if any; the zero-length key ends a map.
PSBT_MAGIC == <<"psbt">>
PSBT_SEPARATOR == <<"xff">>
PSBT_DELIMITER == <<>>
PSBT_GLOBAL_UNSIGNED_TX == "x00"
PSBT_GLOBAL_XPUB == "x01"
PSBT_IN_NON_WITNESS_UTXO == "x00"
PSBT_IN_WITNESS_UTXO == "x01"
PSBT_IN_PARTIAL_SIG == "x02"
PSBT_IN_SIGHASH_TYPE == "x03"
PSBT_IN_REDEEM_SCRIPT == "x04"
PSBT_IN_WITNESS_SCRIPT == "x05"
PSBT_IN_BIP32_DERIVATION == "x06"
PSBT_IN_FINAL_SCRIPTSIG == "x07"
PSBT_IN_FINAL_SCRIPTWITNESS == "x08"
PSBT_OUT_REDEEM_SCRIPT == "x00"
PSBT_OUT_WITNESS_SCRIPT == "x01"
PSBT_OUT_BIP32_DERIVATION == "x02"

\* serialize_key_value(key, value) and encode_varstr(key) + encode_varstr(value):
\* the key field followed by the value field
serialize_key_value(key, value) == <<key, value>>

\* key[0:1], key[1:] and len(key)
KeyType(key) == key[1]
KeyData(key) == IF Len(key) > 1 THEN key[2] ELSE <<>>
KeyLen(key) ==
    IF Len(key) = 1 THEN 1
    ELSE IF key[2][1] = "xpub" THEN 79
    ELSE 1 + BytesLen(key[2])

\* the encodings of the values
Tx_serialize(tx_obj) == <<"tx", tx_obj>>
Tx_parse(b) == b[2]
TxOut_serialize(tx_out) == <<"txout", tx_out>>
TxOut_parse(b) == b[2]
Witness_serialize(witness) == <<"witness", witness>>
Witness_parse(b) == b[2]
int_to_little_endian(n, length) == <<"le", length, n>>
little_endian_to_int(b) == b[3]
Script_parse(b) == b[2]

\* the order of sorted() on the byte strings that are keys of the dicts: the
\* keys of one dict are of one kind, and those of the same kind are told
\* apart by their number
ByteRank(b) == IF b[1] = "sec" THEN b[2][1] ELSE b[2]

RECURSIVE Sorted(_)
\* sorted(d.keys())
Sorted(keys) ==
    IF keys = {} THEN <<>>
    ELSE LET least == CHOOSE x \in keys : \A y \in keys : ByteRank(x) <= ByteRank(y)
         IN <<least>> \o Sorted(keys \ {least})

RECURSIVE Concat(_)
\* result += ... for every element of a sequence of byte streams
Concat(streams) ==
    IF streams = <<>> THEN <<>> ELSE Head(streams) \o Concat(Tail(streams))

\* NamedPublicKey.serialize(prefix)
NamedPublicKey_serialize(prefix, named_pub) ==
    serialize_key_value(<<prefix, named_pub_sec(named_pub)>>, raw_path(named_pub))

\* NamedPublicKey.parse(key, s): the point of the key with the path data read
NamedPublicKey_parse(key, value) ==
    [point |-> key[2][2], root_fingerprint |-> Head(value), root_path |-> Tail(value)]

\* NamedHDPublicKey.serialize: the key data is the serialized extended key
NamedHDPublicKey_serialize(xpub, hd_pub) ==
    serialize_key_value(<<PSBT_GLOBAL_XPUB, xpub>>, raw_path(hd_pub))

\* NamedHDPublicKey.parse(key, s): the extended key <<"xpub", n>> has the
\* point <<n>> and depth 0
NamedHDPublicKey_parse(key, value) ==
    [point |-> <<key[2][2]>>, root_fingerprint |-> Head(value), root_path |-> Tail(value)]

\* the entries of named_pubs and of extra_map, by sorted key
NamedPubEntries(prefix, named_pubs) ==
    Concat([j \in 1..Cardinality(DOMAIN named_pubs) |->
              NamedPublicKey_serialize(prefix, named_pubs[Sorted(DOMAIN named_pubs)[j]])])

ExtraEntries(extra_map) ==
    Concat([j \in 1..Cardinality(DOMAIN extra_map) |->
              serialize_key_value(Sorted(DOMAIN extra_map)[j],
                                  extra_map[Sorted(DOMAIN extra_map)[j]])])

\* "for command in script.commands: if self.sigs.get(command): keys.append(command)"
KeysInScriptOrder(script, sigs) ==
    LET signed == SelectSeq(script, LAMBDA command : SigsGet(sigs, command) # None)
    IN [j \in DOMAIN signed |-> signed[j].data]

\* PSBTIn.serialize emitting the signatures in sorted order whatever scripts
\* the input carries
SigKeyOrder_Sorted(p) == Sorted(OKeys(p.sigs))

\* the order in which PSBTIn.serialize emits the signatures
SigKeyOrder(p) ==
    IF Truthy(p.witness_script) THEN KeysInScriptOrder(p.witness_script[1], p.sigs)
    ELSE IF Truthy(p.redeem_script) /\ ~is_p2wpkh(p.redeem_script[1])
    THEN KeysInScriptOrder(p.redeem_script[1], p.sigs)
    ELSE Sorted(OKeys(p.sigs))

\* the signature entries of PSBTIn.serialize
SigEntries(p) ==
    Concat([j \in DOMAIN SigKeyOrder(p) |->
              serialize_key_value(<<PSBT_IN_PARTIAL_SIG, SigKeyOrder(p)[j]>>,
                                  OGet(p.sigs, SigKeyOrder(p)[j])[1])])

\* PSBTIn.serialize
PSBTIn_serialize(p) ==
    (IF Truthy(p.prev_tx)
     THEN serialize_key_value(<<PSBT_IN_NON_WITNESS_UTXO>>, Tx_serialize(p.prev_tx[1]))
     ELSE IF Truthy(p.prev_out)
     THEN serialize_key_value(<<PSBT_IN_WITNESS_UTXO>>, TxOut_serialize(p.prev_out[1]))
     ELSE <<>>)
    \o SigEntries(p)
    \o (IF TruthyInt(p.hash_type)
        THEN serialize_key_value(<<PSBT_IN_SIGHASH_TYPE>>, int_to_little_endian(p.hash_type[1], 4))
        ELSE <<>>)
    \o (IF Truthy(p.redeem_script)
        THEN serialize_key_value(<<PSBT_IN_REDEEM_SCRIPT>>, raw_serialize(p.redeem_script[1]))
        ELSE <<>>)
    \o (IF Truthy(p.witness_script)
        THEN serialize_key_value(<<PSBT_IN_WITNESS_SCRIPT>>, raw_serialize(p.witness_script[1]))
        ELSE <<>>)
    \o NamedPubEntries(PSBT_IN_BIP32_DERIVATION, p.named_pubs)
    \o (IF Truthy(p.script_sig)
        THEN serialize_key_value(<<PSBT_IN_FINAL_SCRIPTSIG>>, raw_serialize(p.script_sig[1]))
        ELSE <<>>)
    \o (IF Truthy(p.witness)
        THEN serialize_key_value(<<PSBT_IN_FINAL_SCRIPTWITNESS>>, Witness_serialize(p.witness[1]))
        ELSE <<>>)
    \o ExtraEntries(p.extra_map)
    \o <<PSBT_DELIMITER>>

\* PSBTOut.serialize
PSBTOut_serialize(o) ==
    (IF Truthy(o.redeem_script)
     THEN serialize_key_value(<<PSBT_OUT_REDEEM_SCRIPT>>, raw_serialize(o.redeem_script[1]))
     ELSE <<>>)
    \o (IF Truthy(o.witness_script)
        THEN serialize_key_value(<<PSBT_OUT_WITNESS_SCRIPT>>, raw_serialize(o.witness_script[1]))
        ELSE <<>>)
    \o NamedPubEntries(PSBT_OUT_BIP32_DERIVATION, o.named_pubs)
    \o ExtraEntries(o.extra_map)
    \o <<PSBT_DELIMITER>>

\* the global map of PSBT.serialize
GlobalEntries(psbt) ==
    serialize_key_value(<<PSBT_GLOBAL_UNSIGNED_TX>>, Tx_serialize(psbt.tx_obj))
    \o Concat([j \in 1..Cardinality(DOMAIN psbt.hd_pubs) |->
                 NamedHDPublicKey_serialize(Sorted(DOMAIN psbt.hd_pubs)[j],
                                            psbt.hd_pubs[Sorted(DOMAIN psbt.hd_pubs)[j]])])
    \o ExtraEntries(psbt.extra_map)
    \o <<PSBT_DELIMITER>>

\* PSBT.serialize
PSBT_serialize(psbt) ==
    <<PSBT_MAGIC, PSBT_SEPARATOR>>
    \o GlobalEntries(psbt)
    \o Concat([i \in DOMAIN psbt.psbt_ins |-> PSBTIn_serialize(psbt.psbt_ins[i])])
    \o Concat([i \in DOMAIN psbt.psbt_outs |-> PSBTOut_serialize(psbt.psbt_outs[i])])

\* the state of a parse loop: the stream left to read, the exception raised
\* if any, and the local variables of the loop
Raise(st, err) == [st EXCEPT !.err = err]

\* the value of an expression computed once: the element of a singleton
TheOne(S) == CHOOSE x \in S : TRUE

\* "if d.get(key): raise KeyError(Duplicate Key)" for a dict of byte strings:
\* an entry is found if its value is not empty
FoundIn(d, key) == key \in DOMAIN d /\ d[key] # <<>>

\* "if sigs.get(key[1:])" for the sigs dict
FoundInSigs(sigs, key) == key \in OKeys(sigs) /\ OGet(sigs, key)[1] # <<>>

RECURSIVE PSBTIn_parse_loop(_)
\* the while loop of PSBTIn.parse; reading past the end of the stream fails
\* in read_varstr
PSBTIn_parse_loop(st) ==
    IF st.s = <<>> THEN Raise(st, "IndexError")
    ELSE IF Head(st.s) = PSBT_DELIMITER THEN [st EXCEPT !.s = Tail(st.s)]
    ELSE IF Len(st.s) < 2 THEN Raise(st, "IndexError")
    ELSE
    LET key == st.s[1]
        value == st.s[2]
        psbt_type == KeyType(key)
        read == [st EXCEPT !.s = Tail(Tail(st.s))]
    IN
    IF psbt_type = PSBT_IN_NON_WITNESS_UTXO THEN
        IF KeyLen(key) # 1 THEN Raise(st, "KeyError")
        ELSE IF Truthy(st.prev_tx) THEN Raise(st, "KeyError")
        ELSE PSBTIn_parse_loop([read EXCEPT !.prev_tx = Some(Tx_parse(value))])
    ELSE IF psbt_type = PSBT_IN_WITNESS_UTXO THEN
        IF KeyLen(key) # 1 THEN Raise(st, "KeyError")
        ELSE IF Truthy(st.prev_out) THEN Raise(st, "KeyError")
        ELSE PSBTIn_parse_loop([read EXCEPT !.prev_out = Some(TxOut_parse(value))])
    ELSE IF psbt_type = PSBT_IN_PARTIAL_SIG THEN
        IF FoundInSigs(st.sigs, KeyData(key)) THEN Raise(st, "KeyError")
        ELSE PSBTIn_parse_loop([read EXCEPT !.sigs = OPut(st.sigs, KeyData(key), value)])
    ELSE IF psbt_type = PSBT_IN_SIGHASH_TYPE THEN
        IF KeyLen(key) # 1 THEN Raise(st, "KeyError")
        ELSE IF TruthyInt(st.hash_type) THEN Raise(st, "KeyError")
        ELSE PSBTIn_parse_loop([read EXCEPT !.hash_type = Some(little_endian_to_int(value))])
    ELSE IF psbt_type = PSBT_IN_REDEEM_SCRIPT THEN
        IF KeyLen(key) # 1 THEN Raise(st, "KeyError")
        ELSE IF Truthy(st.redeem_script) THEN Raise(st, "KeyError")
        ELSE PSBTIn_parse_loop([read EXCEPT !.redeem_script = Some(Script_parse(value))])
    ELSE IF psbt_type = PSBT_IN_WITNESS_SCRIPT THEN
        IF KeyLen(key) # 1 THEN Raise(st, "KeyError")
        ELSE IF Truthy(st.witness_script) THEN Raise(st, "KeyError")
        ELSE PSBTIn_parse_loop([read EXCEPT !.witness_script = Some(Script_parse(value))])
    ELSE IF psbt_type = PSBT_IN_BIP32_DERIVATION THEN
        IF KeyLen(key) # 34 THEN Raise(st, "KeyError")
        ELSE PSBTIn_parse_loop(
                 [read EXCEPT !.named_pubs =
                     Put(st.named_pubs, KeyData(key), NamedPublicKey_parse(key, value))])
    ELSE IF psbt_type = PSBT_IN_FINAL_SCRIPTSIG THEN
        IF KeyLen(key) # 1 THEN Raise(st, "KeyError")
        ELSE IF Truthy(st.script_sig) THEN Raise(st, "KeyError")
        ELSE PSBTIn_parse_loop([read EXCEPT !.script_sig = Some(Script_parse(value))])
    ELSE IF psbt_type = PSBT_IN_FINAL_SCRIPTWITNESS THEN
        IF KeyLen(key) # 1 THEN Raise(st, "KeyError")
        ELSE IF Truthy(st.witness) THEN Raise(st, "KeyError")
        ELSE PSBTIn_parse_loop([read EXCEPT !.witness = Some(Witness_parse(value))])
    ELSE
        IF FoundIn(st.extra_map, key) THEN Raise(st, "KeyError")
        ELSE PSBTIn_parse_loop([read EXCEPT !.extra_map = Put(st.extra_map, key, value)])

\* PSBTIn.parse(s, tx_in): the PSBTIn built from what the loop has read, the
\* stream left and the exception raised by the loop or by the constructor
PSBTIn_parse(s, tx_in) ==
    TheOne({[p |-> [x \in DOMAIN st \ {"s", "err"} |-> st[x]], s |-> st.s,
             err |-> IF st.err # "ok" THEN st.err
                     ELSE IF Truthy(st.prev_tx) /\ Truthy(st.prev_out) THEN "ValueError"
                     ELSE PSBTIn_validate([x \in DOMAIN st \ {"s", "err"} |-> st[x]])] :
            st \in {PSBTIn_parse_loop(
                       [s |-> s, err |-> "ok", tx_in |-> tx_in, prev_tx |-> None,
                        prev_out |-> None, sigs |-> <<>>, hash_type |-> None,
                        redeem_script |-> None, witness_script |-> None,
                        named_pubs |-> <<>>, script_sig |-> None, witness |-> None,
                        extra_map |-> <<>>])}})

RECURSIVE PSBTOut_parse_loop(_)
\* the while loop of PSBTOut.parse
PSBTOut_parse_loop(st) ==
    IF st.s = <<>> THEN Raise(st, "IndexError")
    ELSE IF Head(st.s) = PSBT_DELIMITER THEN [st EXCEPT !.s = Tail(st.s)]
    ELSE IF Len(st.s) < 2 THEN Raise(st, "IndexError")
    ELSE
    LET key == st.s[1]
        value == st.s[2]
        psbt_type == KeyType(key)
        read == [st EXCEPT !.s = Tail(Tail(st.s))]
    IN
    IF psbt_type = PSBT_OUT_REDEEM_SCRIPT THEN
        IF KeyLen(key) # 1 THEN Raise(st, "KeyError")
        ELSE IF Truthy(st.redeem_script) THEN Raise(st, "KeyError")
        ELSE PSBTOut_parse_loop([read EXCEPT !.redeem_script = Some(Script_parse(value))])
    ELSE IF psbt_type = PSBT_OUT_WITNESS_SCRIPT THEN
        IF KeyLen(key) # 1 THEN Raise(st, "KeyError")
        ELSE IF Truthy(st.witness_script) THEN Raise(st, "KeyError")
        ELSE PSBTOut_parse_loop([read EXCEPT !.witness_script = Some(Script_parse(value))])
    ELSE IF psbt_type = PSBT_OUT_BIP32_DERIVATION THEN
        IF KeyLen(key) # 34 THEN Raise(st, "KeyError")
        ELSE PSBTOut_parse_loop(
                 [read EXCEPT !.named_pubs =
                     Put(st.named_pubs, KeyData(key), NamedPublicKey_parse(key, value))])
    ELSE
        IF FoundIn(st.extra_map, key) THEN Raise(st, "KeyError")
        ELSE PSBTOut_parse_loop([read EXCEPT !.extra_map = Put(st.extra_map, key, value)])

\* PSBTOut.parse(s, tx_out)
PSBTOut_parse(s, tx_out) ==
    TheOne({[o |-> [x \in DOMAIN st \ {"s", "err"} |-> st[x]], s |-> st.s,
             err |-> IF st.err # "ok" THEN st.err
                     ELSE PSBTOut_validate([x \in DOMAIN st \ {"s", "err"} |-> st[x]])] :
            st \in {PSBTOut_parse_loop(
                       [s |-> s, err |-> "ok", tx_out |-> tx_out, redeem_script |-> None,
                        witness_script |-> None, named_pubs |-> <<>>, extra_map |-> <<>>])}})

RECURSIVE PSBT_parse_global(_)
\* the while loop over the global map of PSBT.parse
PSBT_parse_global(st) ==
    IF st.s = <<>> THEN Raise(st, "IndexError")
    ELSE IF Head(st.s) = PSBT_DELIMITER THEN [st EXCEPT !.s = Tail(st.s)]
    ELSE IF Len(st.s) < 2 THEN Raise(st, "IndexError")
    ELSE
    LET key == st.s[1]
        value == st.s[2]
        psbt_type == KeyType(key)
        read == [st EXCEPT !.s = Tail(Tail(st.s))]
    IN
    IF psbt_type = PSBT_GLOBAL_UNSIGNED_TX THEN
        IF KeyLen(key) # 1 THEN Raise(st, "KeyError")
        ELSE IF Truthy(st.tx_obj) THEN Raise(st, "KeyError")
        ELSE PSBT_parse_global([read EXCEPT !.tx_obj = Some(Tx_parse(value))])
    ELSE IF psbt_type = PSBT_GLOBAL_XPUB THEN
        IF KeyLen(key) # 79 THEN Raise(st, "KeyError")
        ELSE PSBT_parse_global(
                 [read EXCEPT !.hd_pubs =
                     Put(st.hd_pubs, KeyData(key), NamedHDPublicKey_parse(key, value))])
    ELSE
        IF FoundIn(st.extra_map, key) THEN Raise(st, "KeyError")
        ELSE PSBT_parse_global([read EXCEPT !.extra_map = Put(st.extra_map, key, value)])

RECURSIVE PSBT_parse_ins(_, _, _)
\* "for tx_in in tx_obj.tx_ins: psbt_ins.append(PSBTIn.parse(s, tx_in))"
PSBT_parse_ins(s, tx_ins, psbt_ins) ==
    IF Len(psbt_ins) = Len(tx_ins) THEN [psbt_ins |-> psbt_ins, s |-> s, err |-> "ok"]
    ELSE TheOne({IF r.err # "ok" THEN [psbt_ins |-> psbt_ins, s |-> r.s, err |-> r.err]
                 ELSE PSBT_parse_ins(r.s, tx_ins, Append(psbt_ins, r.p)) :
                 r \in {PSBTIn_parse(s, tx_ins[Len(psbt_ins) + 1])}})

RECURSIVE PSBT_parse_outs(_, _, _)
\* "for tx_out in tx_obj.tx_outs: psbt_outs.append(PSBTOut.parse(s, tx_out))"
PSBT_parse_outs(s, tx_outs, psbt_outs) ==
    IF Len(psbt_outs) = Len(tx_outs) THEN [psbt_outs |-> psbt_outs, s |-> s, err |-> "ok"]
    ELSE TheOne({IF r.err # "ok" THEN [psbt_outs |-> psbt_outs, s |-> r.s, err |-> r.err]
                 ELSE PSBT_parse_outs(r.s, tx_outs, Append(psbt_outs, r.o)) :
                 r \in {PSBTOut_parse(s, tx_outs[Len(psbt_outs) + 1])}})

\* PSBT.parse(s): the PSBT built, if any, and the exception raised
PSBT_parse(s) ==
    IF Len(s) < 1 \/ s[1] # PSBT_MAGIC THEN [psbt |-> None, err |-> "SyntaxError"]
    ELSE IF Len(s) < 2 \/ s[2] # PSBT_SEPARATOR THEN [psbt |-> None, err |-> "SyntaxError"]
    ELSE TheOne({
        IF g.err # "ok" THEN [psbt |-> None, err |-> g.err]
        ELSE IF ~Truthy(g.tx_obj) THEN [psbt |-> None, err |-> "SyntaxError"]
        ELSE TheOne({
            IF ins.err # "ok" THEN [psbt |-> None, err |-> ins.err]
            ELSE TheOne({
                IF outs.err # "ok" THEN [psbt |-> None, err |-> outs.err]
                ELSE TheOne({
                    TheOne({IF err # "ok" THEN [psbt |-> None, err |-> err]
                            ELSE [psbt |-> Some(psbt), err |-> "ok"] :
                            err \in {PSBT_validate(psbt)}}) :
                    psbt \in {PSBT_init(g.tx_obj[1], ins.psbt_ins, outs.psbt_outs,
                                        g.hd_pubs, g.extra_map)}}) :
                outs \in {PSBT_parse_outs(ins.s, g.tx_obj[1].tx_outs, <<>>)}}) :
            ins \in {PSBT_parse_ins(g.s, g.tx_obj[1].tx_ins, <<>>)}}) :
        g \in {PSBT_parse_global([s |-> Tail(Tail(s)), err |-> "ok", tx_obj |-> None,
                                  hd_pubs |-> <<>>, extra_map |-> <<>>])}})

\* what the software of each of three holders has put into its copy: the
\* first two use the same unknown key for different values
WireProfiles ==
    <<[hash_type |-> Some(1), extra_map |-> [k \in {ExtraKey(1)} |-> "a"],
       hd_pubs |-> [k \in {<<"xpub", 1>>} |-> RootHDPublicKey(1)]],
      [hash_type |-> None, extra_map |-> [k \in {ExtraKey(1), ExtraKey(2)} |-> "b"],
       hd_pubs |-> [k \in {<<"xpub", 2>>} |-> RootHDPublicKey(2)]],
      [hash_type |-> None, extra_map |-> <<>>, hd_pubs |-> <<>>]>>

\* three holders of an updated PSBT, each a signer who has signed its copy,
\* who go on and also send their copies over the wire
InitWire ==
    /\ \E tx_obj \in TxObjs \cup {TxObj(<<"p2wsh-repeated">>, <<"p2wsh-repeated">>)} :
         /\ psbts = [c \in {1, 2, 3} |-> PSBT_sign(UpdatedPSBT(tx_obj, WireProfiles[c]), c).psbt]
         /\ \A i \in DOMAIN tx_obj.tx_ins : \A c \in {1, 2, 3} :
              script_pubkey(psbts[c].psbt_ins[i]) # None
         /\ \A c \in {1, 2, 3} : PSBT_validate(psbts[c]) = "ok"
    /\ finalized = {}
    /\ last = NoCall
    /\ steps = MaxWireSteps

\* a holder serializes its PSBT and goes on with what PSBT.parse makes of the
\* bytes; if the parse raises, the holder keeps what it had
Transmit(c) ==
    /\ steps > 0
    /\ LET sent == PSBT_serialize(psbts[c])
           r == PSBT_parse(sent)
       IN /\ psbts' = IF r.err = "ok" THEN [psbts EXCEPT ![c] = r.psbt[1]] ELSE psbts
          /\ last' = [op |-> "parse", c |-> c, err |-> r.err, pre |-> sent, was |-> {}]
    /\ steps' = steps - 1
    /\ UNCHANGED finalized

NextWire ==
    \E c \in DOMAIN psbts :
        \/ Update(c)
        \/ Sign(c)
        \/ SignWithPrivateKeys(c)
        \/ Combine(c)
        \/ Finalize(c)
        \/ Transmit(c)

SpecWire == InitWire /\ [][NextWire]_vars

-----------------------------------------------------------------------------
(* Properties of combine *)

\* the state of a PSBT compared field by field; two sigs dicts are equal when
\* they hold the same entries, whatever the insertion order
StateOfIn(p) == [p EXCEPT !.sigs = ODict(p.sigs)]
StateOf(psbt) == [psbt EXCEPT !.psbt_ins = [i \in DOMAIN psbt.psbt_ins |-> StateOfIn(psbt.psbt_ins[i])]]

\* two optional values, or two dicts, that hold nothing different
NoClash(o1, o2) == o1 = None \/ o2 = None \/ o1 = o2
NoClashDict(d1, d2) == \A k \in (DOMAIN d1) \cap (DOMAIN d2) : d1[k] = d2[k]

\* The contributions of two PSBTs do not overlap: no single-valued field is set
\* to different values in both and no key is bound to different values in
\* both (what the two share already is a contribution of neither).
NonOverlappingIn(p, q) ==
    /\ NoClash(p.prev_tx, q.prev_tx) /\ NoClash(p.prev_out, q.prev_out)
    /\ NoClash(p.hash_type, q.hash_type)
    /\ NoClash(p.redeem_script, q.redeem_script) /\ NoClash(p.witness_script, q.witness_script)
    /\ NoClash(p.script_sig, q.script_sig) /\ NoClash(p.witness, q.witness)
    /\ NoClashDict(ODict(p.sigs), ODict(q.sigs))
    /\ NoClashDict(p.named_pubs, q.named_pubs)
    /\ NoClashDict(p.extra_map, q.extra_map)

NonOverlappingOut(o, q) ==
    /\ NoClash(o.redeem_script, q.redeem_script) /\ NoClash(o.witness_script, q.witness_script)
    /\ NoClashDict(o.named_pubs, q.named_pubs)
    /\ NoClashDict(o.extra_map, q.extra_map)

NonOverlapping(a, b) ==
    /\ a.tx_obj.hash = b.tx_obj.hash
    /\ NoClashDict(a.hd_pubs, b.hd_pubs)
    /\ NoClashDict(a.extra_map, b.extra_map)
    /\ \A i \in DOMAIN a.psbt_ins : NonOverlappingIn(a.psbt_ins[i], b.psbt_ins[i])
    /\ \A i \in DOMAIN a.psbt_outs : NonOverlappingOut(a.psbt_outs[i], b.psbt_outs[i])

\* C1: combine is commutative for contributions that do not overlap: for all
\* copies a and b of that kind, a after a.combine(b) and b after b.combine(a)
\* are in the same state, field by field, for every input and output.
C1_CombineCommutative ==
    \A a, b \in DOMAIN psbts :
        NonOverlapping(psbts[a], psbts[b]) =>
            StateOf(PSBT_combine(psbts[a], psbts[b]).psbt) = StateOf(PSBT_combine(psbts[b], psbts[a]).psbt)

\* the keys under which an input holds a signature
SigKeys(psbt, i) == OKeys(psbt.psbt_ins[i].sigs)

\* a combine has returned while two copies hold signatures, unknown entries
\* and global keys the other one lacks
C1_Witness ==
    /\ last.op = "combine" /\ last.err = "ok"
    /\ \E a, b \in DOMAIN psbts :
         /\ NonOverlapping(psbts[a], psbts[b])
         /\ SigKeys(psbts[a], 1) \ SigKeys(psbts[b], 1) # {}
         /\ SigKeys(psbts[b], 1) \ SigKeys(psbts[a], 1) # {}
         /\ (DOMAIN psbts[a].hd_pubs) \ (DOMAIN psbts[b].hd_pubs) # {}
         /\ (DOMAIN psbts[b].psbt_outs[1].extra_map) \ (DOMAIN psbts[a].psbt_outs[1].extra_map) # {}

\* C2: combine is associative for contributions that do not overlap pairwise:
\* combining b and then c into a gives the state that combining c into b and
\* then the result into a gives.
C2_CombineAssociative ==
    \A a, b, c \in DOMAIN psbts :
        (/\ NonOverlapping(psbts[a], psbts[b])
         /\ NonOverlapping(psbts[b], psbts[c])
         /\ NonOverlapping(psbts[a], psbts[c])) =>
            StateOf(PSBT_combine(PSBT_combine(psbts[a], psbts[b]).psbt, psbts[c]).psbt)
              = StateOf(PSBT_combine(psbts[a], PSBT_combine(psbts[b], psbts[c]).psbt).psbt)

\* after a combine: three copies with pairwise different, pairwise
\* non-overlapping contents, each of two holding a signature the next lacks
C2_Witness ==
    /\ last.op = "combine" /\ last.err = "ok"
    /\ \E a, b, c \in DOMAIN psbts :
         /\ NonOverlapping(psbts[a], psbts[b])
         /\ NonOverlapping(psbts[b], psbts[c])
         /\ NonOverlapping(psbts[a], psbts[c])
         /\ StateOf(psbts[a]) # StateOf(psbts[b])
         /\ StateOf(psbts[b]) # StateOf(psbts[c])
         /\ StateOf(psbts[a]) # StateOf(psbts[c])
         /\ SigKeys(psbts[c], 1) \ SigKeys(psbts[b], 1) # {}
         /\ SigKeys(psbts[b], 1) \ SigKeys(psbts[a], 1) # {}

\* C3: combine is idempotent: combining a PSBT, finalized or not, with an
\* identical copy of itself leaves every field unchanged.
C3_CombineIdempotent ==
    \A a, b \in DOMAIN psbts :
        psbts[a] = psbts[b] => PSBT_combine(psbts[a], psbts[b]).psbt = psbts[a]

\* a copy that was updated and signed has just been combined with an
\* identical copy
C3_Witness ==
    /\ last.op = "combine" /\ last.err = "ok"
    /\ psbts[1] = psbts[2]
    /\ \E s \in Signers : sec(Point(s)) \in SigKeys(psbts[1], 1)
    /\ psbts[1].psbt_ins[1].named_pubs # <<>>
    /\ Truthy(psbts[1].psbt_ins[1].prev_tx)

\* the signature maps of all inputs of a PSBT
SigsOf(psbt) == [i \in DOMAIN psbt.psbt_ins |-> ODict(psbt.psbt_ins[i].sigs)]

\* C4: signers need no coordination: when two signers sign their own copy of
\* a PSBT each, with different keys, combining the copies in either direction
\* gives every input the signature map that both signers signing one copy one
\* after the other give it, in either order (for sign and for
\* sign_with_private_keys).
C4_SignersIndependent ==
    \A c \in DOMAIN psbts : \A s1, s2 \in Signers :
        LET x == psbts[c]
            a == PSBT_sign(x, s1)
            b == PSBT_sign(x, s2)
            ak == PSBT_sign_with_private_keys(x, Point(s1))
            bk == PSBT_sign_with_private_keys(x, Point(s2))
        IN /\ (s1 # s2 /\ a.err = "ok" /\ b.err = "ok") =>
                /\ SigsOf(PSBT_combine(a.psbt, b.psbt).psbt) = SigsOf(PSBT_sign(a.psbt, s2).psbt)
                /\ SigsOf(PSBT_combine(b.psbt, a.psbt).psbt) = SigsOf(PSBT_sign(a.psbt, s2).psbt)
                /\ SigsOf(PSBT_sign(b.psbt, s1).psbt) = SigsOf(PSBT_sign(a.psbt, s2).psbt)
           /\ (s1 # s2 /\ ak.err = "ok" /\ bk.err = "ok") =>
                /\ SigsOf(PSBT_combine(ak.psbt, bk.psbt).psbt)
                     = SigsOf(PSBT_sign_with_private_keys(ak.psbt, Point(s2)).psbt)
                /\ SigsOf(PSBT_combine(bk.psbt, ak.psbt).psbt)
                     = SigsOf(PSBT_sign_with_private_keys(ak.psbt, Point(s2)).psbt)
                /\ SigsOf(PSBT_sign_with_private_keys(bk.psbt, Point(s1)).psbt)
                     = SigsOf(PSBT_sign_with_private_keys(ak.psbt, Point(s2)).psbt)

-----------------------------------------------------------------------------
(* Properties of the state of an input *)

\* C5: in every reachable state no PSBTIn has both its full previous
\* transaction (prev_tx) and its previous single output (prev_out) set.
C5_ExclusiveProvenance ==
    \A c \in DOMAIN psbts : \A i \in DOMAIN psbts[c].psbt_ins :
        ~(Truthy(psbts[c].psbt_ins[i].prev_tx) /\ Truthy(psbts[c].psbt_ins[i].prev_out))

\* the fields that finalize clears
SigningFieldsEmpty(p) ==
    /\ p.sigs = <<>>
    /\ p.hash_type = None
    /\ p.redeem_script = None
    /\ p.witness_script = None
    /\ p.named_pubs = <<>>

\* C6: finalize is irreversible: once finalize has succeeded on an input, its
\* signatures, hash type, redeem script, witness script and key annotations
\* are empty in every later state, whatever update, sign or combine calls
\* follow.
C6_FinalizeIrreversible ==
    \A f \in finalized : SigningFieldsEmpty(psbts[f[1]].psbt_ins[f[2]])

-----------------------------------------------------------------------------
(* Properties of finalize *)

\* the shape of an input, from its ScriptPubKey and its RedeemScript
IsP2PKHInput(p) == script_pubkey(p) # None /\ is_p2pkh(script_pubkey(p)[1])
IsP2WPKHInput(p) ==
    script_pubkey(p) # None /\ is_p2wpkh(script_pubkey(p)[1]) /\ p.redeem_script = None
IsP2SHP2WPKHInput(p) ==
    /\ script_pubkey(p) # None /\ is_p2sh(script_pubkey(p)[1])
    /\ p.redeem_script # None /\ is_p2wpkh(p.redeem_script[1])
IsP2WSHInput(p) ==
    script_pubkey(p) # None /\ is_p2wsh(script_pubkey(p)[1]) /\ p.redeem_script = None
IsP2SHP2WSHInput(p) ==
    /\ script_pubkey(p) # None /\ is_p2sh(script_pubkey(p)[1])
    /\ p.redeem_script # None /\ is_p2wsh(p.redeem_script[1])
IsP2SHInput(p) ==
    /\ script_pubkey(p) # None /\ is_p2sh(script_pubkey(p)[1])
    /\ p.redeem_script # None
    /\ ~is_p2wpkh(p.redeem_script[1]) /\ ~is_p2wsh(p.redeem_script[1])

\* a witness multisig input whose WitnessScript is known
IsWitnessMultisig(p) == (IsP2WSHInput(p) \/ IsP2SHP2WSHInput(p)) /\ p.witness_script # None
\* a script-hash multisig input whose multisig script is known
IsMultisig(p) == IsP2SHInput(p) \/ IsWitnessMultisig(p)
IsSingleKey(p) == IsP2PKHInput(p) \/ IsP2WPKHInput(p) \/ IsP2SHP2WPKHInput(p)

\* the multisig script of the input, its threshold m and its public keys
MultisigScriptOf(p) == IF IsP2SHInput(p) THEN p.redeem_script[1] ELSE p.witness_script[1]
Threshold(p) == MultisigScriptOf(p)[1].op - 80
KeyPosition(p, b) == CHOOSE j \in DOMAIN MultisigScriptOf(p) : MultisigScriptOf(p)[j] = Data(b)
UsableKeys(p) == {b \in OKeys(p.sigs) : HasCommand(MultisigScriptOf(p), b)}

\* the elements of the unlocking data of a finalized multisig input: the
\* commands of the unlocking script (their data) or the items of the witness
UnlockingData(p, q) ==
    IF IsP2SHInput(p)
    THEN [j \in DOMAIN q.script_sig[1] |->
            IF IsData(q.script_sig[1][j]) THEN q.script_sig[1][j].data ELSE <<"op", q.script_sig[1][j].op>>]
    ELSE q.witness[1]
\* what lies between the first and the last element
Between(u) == SubSeq(u, 2, Len(u) - 1)
\* the key under which the input held a signature
KeyOfSig(p, sig) == CHOOSE b \in OKeys(p.sigs) : OGet(p.sigs, b) = Some(sig)
IsSigOf(p, e) == \E b \in OKeys(p.sigs) : OGet(p.sigs, b) = Some(e)

\* a call of finalize has just returned normally; Before(i) is input i of the
\* receiver before the call and Now(i) is that input now
JustFinalized(i) == last.op = "finalize" /\ last.err = "ok" /\ i \in DOMAIN last.pre
Before(i) == last.pre[i]
Now(i) == psbts[last.c].psbt_ins[i]

\* C7: when a script-hash multisig input is finalized, the signatures in the
\* unlocking data appear in the order in which their public keys appear in
\* the redeem/witness script, whatever the order of insertion into sigs was.
C7_SigsInScriptOrder ==
    \A i \in DOMAIN last.pre :
        (JustFinalized(i) /\ IsMultisig(Before(i))) =>
            LET p == Before(i)
                u == Between(UnlockingData(p, Now(i)))
            IN /\ \A j \in DOMAIN u : IsSigOf(p, u[j])
               /\ \A j, k \in DOMAIN u :
                    j < k => KeyPosition(p, KeyOfSig(p, u[j])) < KeyPosition(p, KeyOfSig(p, u[k]))

\* a witness multisig input has been finalized with two signatures that were
\* inserted in the order opposite to the order of their keys in the script
C7_Witness ==
    /\ JustFinalized(1) /\ IsWitnessMultisig(Before(1))
    /\ Len(Between(UnlockingData(Before(1), Now(1)))) = 2
    /\ Len(Before(1).sigs) = 2
    /\ KeyPosition(Before(1), Before(1).sigs[1].sec) > KeyPosition(Before(1), Before(1).sigs[2].sec)

\* C8: finalize of a script-hash multisig input with threshold m succeeds only
\* when at least m recorded signatures are keyed by public keys of the
\* redeem/witness script, and the unlocking data then carries exactly m
\* signatures; with fewer usable signatures it fails with a RuntimeError, in
\* the p2sh branch as in the p2wsh branch.
C8_ThresholdEnforced ==
    /\ \A i \in DOMAIN last.pre :
         (JustFinalized(i) /\ IsMultisig(Before(i))) =>
            /\ Cardinality(UsableKeys(Before(i))) >= Threshold(Before(i))
            /\ Len(Between(UnlockingData(Before(i), Now(i)))) = Threshold(Before(i))
    /\ (/\ last.op = "finalize" /\ 1 \in DOMAIN last.pre
        /\ IsMultisig(Before(1))
        /\ Cardinality(UsableKeys(Before(1))) < Threshold(Before(1))) => last.err = "RuntimeError"

\* the empty placeholder element: the command 0 in an unlocking script, the
\* item b"\x00" in a witness
Placeholder(p) == IF IsP2SHInput(p) THEN <<"op", OP_0>> ELSE ZeroByte

\* C9: for every finalized script-hash multisig input, the first element of
\* the unlocking data (unlocking script for p2sh, witness for p2wsh and
\* p2sh-p2wsh) is the placeholder, the last one is the raw serialization of
\* the redeem/witness script, and only signatures lie in between.
C9_UnlockingDataLayout ==
    \A i \in DOMAIN last.pre :
        (JustFinalized(i) /\ IsMultisig(Before(i))) =>
            LET p == Before(i)
                u == UnlockingData(p, Now(i))
            IN /\ Len(u) >= 2
               /\ u[1] = Placeholder(p)
               /\ u[Len(u)] = raw_serialize(MultisigScriptOf(p))
               /\ \A j \in DOMAIN Between(u) : IsSigOf(p, Between(u)[j])

\* a p2sh multisig input has been finalized with two signatures
C9_Witness ==
    /\ JustFinalized(1) /\ IsP2SHInput(Before(1))
    /\ Len(UnlockingData(Before(1), Now(1))) = 4

\* C10: finalize of a single-key input succeeds iff exactly one signature is
\* recorded and fails with a RuntimeError otherwise; p2pkh gives the unlocking
\* script [sig, pubkey] and no witness, p2wpkh an empty unlocking script and
\* the witness [sig, pubkey], p2sh-p2wpkh an unlocking script holding only the
\* serialized RedeemScript and the witness [sig, pubkey].
C10_SingleKeyFinalize ==
    (last.op = "finalize" /\ 1 \in DOMAIN last.pre /\ IsSingleKey(Before(1))) =>
        LET p == Before(1)
            q == Now(1)
        IN /\ (last.err = "ok") <=> (Len(p.sigs) = 1)
           /\ Len(p.sigs) # 1 => last.err = "RuntimeError"
           /\ (last.err = "ok" /\ IsP2PKHInput(p)) =>
                /\ q.script_sig = Some(<<Data(p.sigs[1].sig), Data(p.sigs[1].sec)>>)
                /\ q.witness = None
           /\ (last.err = "ok" /\ IsP2WPKHInput(p)) =>
                /\ q.script_sig = Some(<<>>)
                /\ q.witness = Some(<<p.sigs[1].sig, p.sigs[1].sec>>)
           /\ (last.err = "ok" /\ IsP2SHP2WPKHInput(p)) =>
                /\ q.script_sig = Some(<<Data(raw_serialize(p.redeem_script[1]))>>)
                /\ q.witness = Some(<<p.sigs[1].sig, p.sigs[1].sec>>)

\* a p2sh-p2wpkh input with the signature of its key has been finalized
C10_Witness ==
    /\ JustFinalized(1) /\ IsP2SHP2WPKHInput(Before(1))
    /\ Before(1).sigs[1].sec = sec(Point(1))
    /\ Now(1).witness # None

\* C11: a second finalize call on an input that an earlier call has finalized
\* fails with a RuntimeError and leaves the unlocking script and the witness
\* of the first call unchanged.
C11_SecondFinalizeFails ==
    \A i \in last.was :
        last.op = "finalize" =>
            /\ last.err = "RuntimeError"
            /\ Now(i).script_sig = Before(i).script_sig
            /\ Now(i).witness = Before(i).witness

-----------------------------------------------------------------------------
(* Properties of PSBT.combine across parties *)

\* C12: PSBT.combine(other) raises a ValueError whenever the transaction
\* hashes of the two PSBTs differ, and then no field of self has been modified.
C12_CombineRejectsOtherTx ==
    \A c, d \in DOMAIN psbts :
        psbts[c].tx_obj.hash # psbts[d].tx_obj.hash =>
            /\ PSBT_combine(psbts[c], psbts[d]).err = "ValueError"
            /\ PSBT_combine(psbts[c], psbts[d]).psbt = psbts[c]

\* a combine with a PSBT over another transaction, holding entries under
\* keys the receiver lacks, has raised
C12_Witness ==
    /\ last.op = "combine" /\ last.err = "ValueError"
    /\ \E d \in DOMAIN psbts :
         /\ psbts[d].tx_obj.hash # psbts[last.c].tx_obj.hash
         /\ DOMAIN psbts[d].extra_map \ DOMAIN psbts[last.c].extra_map # {}
         /\ DOMAIN psbts[d].hd_pubs \ DOMAIN psbts[last.c].hd_pubs # {}

\* the entries of a dict and of an ordered dict under the keys both hold
KeptDict(self, other, result) ==
    \A k \in DOMAIN self \cap DOMAIN other : result[k] = self[k]

KeptSigs(self, other, result) ==
    \A b \in OKeys(self) \cap OKeys(other) : OGet(result, b) = OGet(self, b)

\* C13: on a key collision during combine the entry of self is kept, in the
\* global extended-key map and the global extra map and in the signatures,
\* the key annotations and the extra map of each input.
C13_SelfWinsOnCollision ==
    \A c, d \in DOMAIN psbts :
        LET self == psbts[c]
            other == psbts[d]
            r == PSBT_combine(self, other)
        IN r.err = "ok" =>
             /\ KeptDict(self.hd_pubs, other.hd_pubs, r.psbt.hd_pubs)
             /\ KeptDict(self.extra_map, other.extra_map, r.psbt.extra_map)
             /\ \A i \in DOMAIN self.psbt_ins :
                  /\ KeptSigs(self.psbt_ins[i].sigs, other.psbt_ins[i].sigs, r.psbt.psbt_ins[i].sigs)
                  /\ KeptDict(self.psbt_ins[i].named_pubs, other.psbt_ins[i].named_pubs,
                              r.psbt.psbt_ins[i].named_pubs)
                  /\ KeptDict(self.psbt_ins[i].extra_map, other.psbt_ins[i].extra_map,
                              r.psbt.psbt_ins[i].extra_map)

-----------------------------------------------------------------------------
(* Properties of update *)

\* the ScriptPubKey an update with this tx_lookup finds for an input, if any
SpentScriptPubKey(p, tx_lookup) ==
    IF Truthy(p.prev_tx) \/ Get(tx_lookup, p.tx_in.prev_tx) = None
    THEN script_pubkey(p)
    ELSE Some(Get(tx_lookup, p.tx_in.prev_tx)[1].tx_outs[p.tx_in.prev_index].script_pubkey)

IsStandard(spk) == is_p2pkh(spk) \/ is_p2sh(spk) \/ is_p2wpkh(spk) \/ is_p2wsh(spk)

\* a lookup table that resolves nothing leaves the field it would fill unset
UnresolvedLeftUnset(before, after, l) ==
    /\ \A i \in DOMAIN before.psbt_ins :
         LET p == before.psbt_ins[i]
             q == after.psbt_ins[i]
         IN /\ SpentScriptPubKey(p, l.tx_lookup) = None => q = p
            /\ (l.redeem_lookup = <<>> /\ p.redeem_script = None) => q.redeem_script = None
            /\ (l.witness_lookup = <<>> /\ p.witness_script = None) => q.witness_script = None
            /\ l.pubkey_lookup = <<>> => q.named_pubs = p.named_pubs
    /\ \A i \in DOMAIN before.psbt_outs :
         LET o == before.psbt_outs[i]
             q == after.psbt_outs[i]
         IN /\ (l.redeem_lookup = <<>> /\ o.redeem_script = None) => q.redeem_script = None
            /\ (l.witness_lookup = <<>> /\ o.witness_script = None) => q.witness_script = None
            /\ l.pubkey_lookup = <<>> => q.named_pubs = o.named_pubs

UpdateWith(c, l) ==
    PSBT_update(psbts[c], l.tx_lookup, l.pubkey_lookup, l.redeem_lookup, l.witness_lookup)

\* C14 as stated: PSBT.update never fails, for every PSBT and every
\* combination of lookup tables, inputs whose spent ScriptPubKey is none of
\* P2PKH/P2SH/P2WPKH/P2WSH included, and a lookup that does not resolve leaves
\* the corresponding field unset.
C14_UpdateNeverFails ==
    \A c \in DOMAIN psbts : \A l \in Lookups :
        LET r == UpdateWith(c, l)
        IN /\ r.err = "ok"
           /\ UnresolvedLeftUnset(psbts[c], r.psbt, l)

\* C14, amended: PSBT.update can fail only with the ValueError raised for an
\* input whose spent ScriptPubKey is none of P2PKH/P2SH/P2WPKH/P2WSH: for
\* every PSBT whose inputs spend outputs of unknown or of these four shapes
\* and every combination of lookup tables, update returns normally, and a
\* lookup that does not resolve leaves the corresponding field unset.
C14_UpdateFailsOnlyOnOtherShape ==
    \A c \in DOMAIN psbts : \A l \in Lookups :
        LET r == UpdateWith(c, l)
        IN /\ r.err \in {"ok", "ValueError"}
           /\ r.err = "ValueError" =>
                \E i \in DOMAIN psbts[c].psbt_ins :
                    /\ SpentScriptPubKey(psbts[c].psbt_ins[i], l.tx_lookup) # None
                    /\ ~IsStandard(SpentScriptPubKey(psbts[c].psbt_ins[i], l.tx_lookup)[1])
           /\ r.err = "ok" => UnresolvedLeftUnset(psbts[c], r.psbt, l)

\* an update has raised, and an update of a P2SH input whose redeem script no
\* table resolves would return normally
C14_Witness ==
    /\ last.op = "update" /\ last.err = "ValueError"
    /\ \E c \in DOMAIN psbts : \E l \in Lookups : \E i \in DOMAIN psbts[c].psbt_ins :
         /\ SpentScriptPubKey(psbts[c].psbt_ins[i], l.tx_lookup) # None
         /\ ~IsStandard(SpentScriptPubKey(psbts[c].psbt_ins[i], l.tx_lookup)[1])
         /\ UpdateWith(c, l).err = "ValueError"

-----------------------------------------------------------------------------
(* Properties of final_tx *)

\* the unlocking data input i of a PSBT holds verifies against the output it spends
UnlockingDataVerifies(psbt, i) ==
    verify_input([clone(psbt.tx_obj) EXCEPT
                    !.tx_ins[i].script_sig = psbt.psbt_ins[i].script_sig,
                    !.tx_ins[i].witness = IF Truthy(psbt.psbt_ins[i].witness)
                                          THEN psbt.psbt_ins[i].witness[1] ELSE <<>>], i)

\* C15: final_tx returns a transaction only if the unlocking data of every
\* input verifies; if some input is unfinalized or its unlocking data does not
\* verify, final_tx fails and returns no transaction.
C15_FinalTxOnlyIfVerified ==
    \A c \in DOMAIN psbts :
        LET r == PSBT_final_tx(psbts[c])
        IN /\ Truthy(r.tx) =>
                /\ r.err = "ok"
                /\ \A i \in DOMAIN psbts[c].psbt_ins :
                     /\ psbts[c].psbt_ins[i].script_sig # None
                     /\ UnlockingDataVerifies(psbts[c], i)
                     /\ r.tx[1].tx_ins[i].script_sig = psbts[c].psbt_ins[i].script_sig
           /\ (\E i \in DOMAIN psbts[c].psbt_ins :
                 \/ psbts[c].psbt_ins[i].script_sig = None
                 \/ ~UnlockingDataVerifies(psbts[c], i)) =>
                r.err # "ok" /\ r.tx = None

\* final_tx has failed on a PSBT whose inputs are all finalized, one of them
\* with unlocking data that does not verify
C15_Witness ==
    /\ last.op = "final_tx" /\ last.err = "RuntimeError"
    /\ \A i \in DOMAIN psbts[last.c].psbt_ins : <<last.c, i>> \in finalized
    /\ \E i \in DOMAIN psbts[last.c].psbt_ins : ~UnlockingDataVerifies(psbts[last.c], i)

-----------------------------------------------------------------------------
(* Properties of construction and validation *)

\* the constructor call has been made on these arguments
Constructed(c) == last.op = "init" /\ last.c = c

CountMismatch(psbt) ==
    \/ Len(psbt.psbt_ins) # Len(psbt.tx_obj.tx_ins)
    \/ Len(psbt.psbt_outs) # Len(psbt.tx_obj.tx_outs)

HasFailingAncestor(named_pubs, hd_pubs) ==
    \E b \in DOMAIN named_pubs : \E x \in DOMAIN hd_pubs :
        /\ is_ancestor(hd_pubs[x], named_pubs[b])
        /\ ~verify_descendent(hd_pubs[x], named_pubs[b])

\* C17: PSBT.validate raises a ValueError whenever some key annotation of an
\* input or output has an ancestor among the global extended keys whose
\* re-derivation does not reproduce the annotated point, however many global
\* extended keys are ancestors of the annotation.
C17_FailingAncestorRejected ==
    \A c \in DOMAIN psbts :
        (/\ ~CountMismatch(psbts[c])
         /\ \/ \E i \in DOMAIN psbts[c].psbt_ins :
                  HasFailingAncestor(psbts[c].psbt_ins[i].named_pubs, psbts[c].hd_pubs)
            \/ \E i \in DOMAIN psbts[c].psbt_outs :
                  HasFailingAncestor(psbts[c].psbt_outs[i].named_pubs, psbts[c].hd_pubs))
        => PSBT_validate(psbts[c]) = "ValueError"

\* the 32-byte hash an input commits its witness script to, if any
CommittedSha256(p) ==
    IF script_pubkey(p) # None /\ is_p2wsh(script_pubkey(p)[1]) THEN Some(script_pubkey(p)[1][2].data)
    ELSE IF script_pubkey(p) # None /\ is_p2sh(script_pubkey(p)[1])
            /\ Truthy(p.redeem_script) /\ is_p2wsh(p.redeem_script[1])
    THEN Some(p.redeem_script[1][2].data)
    ELSE None

RedeemHashMismatch(p) ==
    /\ script_pubkey(p) # None
    /\ is_p2sh(script_pubkey(p)[1])
    /\ Truthy(p.redeem_script)
    /\ RedeemScript_hash160(p.redeem_script[1]) # script_pubkey(p)[1][2].data

WitnessHashMismatch(p) ==
    /\ Truthy(p.witness_script)
    /\ CommittedSha256(p) # None
    /\ WitnessScript_sha256(p.witness_script[1]) # CommittedSha256(p)[1]

\* C18: PSBTIn.validate rejects every input that carries a redeem script
\* whose HASH160 differs from the hash in the spent P2SH ScriptPubKey, or a
\* witness script whose SHA-256 differs from the committed hash, whichever of
\* prev_tx and prev_out is set and with or without a witness script next to
\* the redeem script.
C18_ScriptHashMismatchRejected ==
    \A c \in DOMAIN psbts : \A i \in DOMAIN psbts[c].psbt_ins :
        (RedeemHashMismatch(psbts[c].psbt_ins[i]) \/ WitnessHashMismatch(psbts[c].psbt_ins[i]))
        => PSBTIn_validate(psbts[c].psbt_ins[i]) = "ValueError"

\* the key hash a single-key input is locked to, if the input is one
SingleKeyHashOf(p) ==
    IF script_pubkey(p) = None THEN None
    ELSE IF is_p2pkh(script_pubkey(p)[1]) THEN Some(script_pubkey(p)[1][3].data)
    ELSE IF is_p2wpkh(script_pubkey(p)[1]) THEN Some(script_pubkey(p)[1][2].data)
    ELSE IF is_p2sh(script_pubkey(p)[1]) /\ Truthy(p.redeem_script) /\ is_p2wpkh(p.redeem_script[1])
    THEN Some(p.redeem_script[1][2].data)
    ELSE None

\* C19: for an input spending a single-key shape (P2PKH, P2WPKH, P2SH-wrapped
\* P2WPKH), PSBTIn.validate rejects more than one annotated key and rejects a
\* single annotated key whose HASH160 differs from the embedded hash,
\* whichever of prev_tx and prev_out is set.
C19_SingleKeyAnnotationsChecked ==
    \A c \in DOMAIN psbts : \A i \in DOMAIN psbts[c].psbt_ins :
        LET p == psbts[c].psbt_ins[i]
        IN (/\ SingleKeyHashOf(p) # None
            /\ \/ Cardinality(DOMAIN p.named_pubs) > 1
               \/ \E b \in DOMAIN p.named_pubs : named_pub_hash160(p.named_pubs[b]) # SingleKeyHashOf(p)[1])
           => PSBTIn_validate(p) = "ValueError"

\* the script that lists the keys of a script-hash input, if it is present:
\* the witness script of a P2WSH or P2SH-wrapped P2WSH input, the redeem
\* script of a P2SH input that wraps no witness program
KeyScriptOf(p) ==
    IF script_pubkey(p) = None THEN None
    ELSE IF CommittedSha256(p) # None THEN p.witness_script
    ELSE IF is_p2sh(script_pubkey(p)[1]) /\ Truthy(p.redeem_script)
            /\ ~is_p2wpkh(p.redeem_script[1]) /\ ~is_p2wsh(p.redeem_script[1])
    THEN p.redeem_script
    ELSE None

\* C20: for an input spending a script-hash shape with its redeem or witness
\* script present, PSBTIn.validate rejects any annotated public key that is
\* not one of the commands of that script, with prev_tx and a redeem script
\* and with prev_out and a redeem script, a witness script or both.
C20_AnnotatedKeysInScript ==
    \A c \in DOMAIN psbts : \A i \in DOMAIN psbts[c].psbt_ins :
        LET p == psbts[c].psbt_ins[i]
        IN (/\ KeyScriptOf(p) # None
            /\ Truthy(p.prev_tx) => KeyScriptOf(p) = p.redeem_script
            /\ \E b \in DOMAIN p.named_pubs : ~HasCommand(KeyScriptOf(p)[1], b))
           => PSBTIn_validate(p) = "ValueError"

\* the 32-byte hash an output commits its witness script to, if any
OutCommittedSha256(o) ==
    IF is_p2wsh(o.tx_out.script_pubkey) THEN Some(o.tx_out.script_pubkey[2].data)
    ELSE IF is_p2sh(o.tx_out.script_pubkey) /\ Truthy(o.redeem_script) /\ is_p2wsh(o.redeem_script[1])
    THEN Some(o.redeem_script[1][2].data)
    ELSE None

OutRedeemHashMismatch(o) ==
    /\ is_p2sh(o.tx_out.script_pubkey)
    /\ Truthy(o.redeem_script)
    /\ RedeemScript_hash160(o.redeem_script[1]) # o.tx_out.script_pubkey[2].data

OutWitnessHashMismatch(o) ==
    /\ Truthy(o.witness_script)
    /\ OutCommittedSha256(o) # None
    /\ WitnessScript_sha256(o.witness_script[1]) # OutCommittedSha256(o)[1]

\* C21: PSBTOut.validate rejects an output record whose redeem script's
\* HASH160 differs from the hash in the output's P2SH ScriptPubKey, or whose
\* witness script's SHA-256 differs from the committed hash, a P2SH output
\* with a redeem script and no witness script included.
C21_OutputScriptHashBinding ==
    \A c \in DOMAIN psbts : \A i \in DOMAIN psbts[c].psbt_outs :
        (OutRedeemHashMismatch(psbts[c].psbt_outs[i]) \/ OutWitnessHashMismatch(psbts[c].psbt_outs[i]))
        => PSBTOut_validate(psbts[c].psbt_outs[i]) # "ok"

\* the positions of the keys of the entries of a stream, from position j on
RECURSIVE KeyPositions(_, _)
KeyPositions(s, j) ==
    IF j > Len(s) THEN {}
    ELSE IF s[j] = PSBT_DELIMITER THEN KeyPositions(s, j + 1)
    ELSE {j} \cup KeyPositions(s, j + 2)

\* the stream with the entry at position j written twice
Duplicated(s, j) ==
    SubSeq(s, 1, j + 1) \o <<s[j], s[j + 1]>> \o SubSeq(s, j + 2, Len(s))

\* what the sender's software put into the PSBT besides the transaction: a
\* hash type, an extended key, and an unknown entry whose value may be empty
SenderProfiles ==
    {[hash_type |-> Some(1), extra_map |-> [k \in {ExtraKey(1)} |-> v],
      hd_pubs |-> [k \in {<<"xpub", 1>>} |-> RootHDPublicKey(1)]] : v \in {<<>>, <<"a">>}}

\* the PSBTs a sender serializes: updated and signed, finalized or not
SentPSBTs ==
    {psbt \in UNION {{PSBT_sign(UpdatedPSBT(tx_obj, prof), 1).psbt,
                      PSBT_finalize(PSBT_sign(UpdatedPSBT(tx_obj, prof), 1).psbt).psbt} :
                        tx_obj \in TxObjs, prof \in SenderProfiles} :
        PSBT_validate(psbt) = "ok"}

\* the streams a receiver gets: the serialization of a PSBT, as it is or with
\* one of its entries written twice
ReceivedStreams ==
    UNION {{PSBT_serialize(psbt)} \cup
           {Duplicated(PSBT_serialize(psbt), j) : j \in KeyPositions(PSBT_serialize(psbt), 3)} :
              psbt \in SentPSBTs}

\* a receiver holds a stream and no PSBT yet
InitParse ==
    /\ psbts = <<>>
    /\ finalized = {}
    /\ \E s \in ReceivedStreams :
         last = [op |-> "received", c |-> 0, err |-> "ok", pre |-> s, was |-> {}]
    /\ steps = MaxParseSteps

\* PSBT.parse on the received stream
Parse ==
    /\ steps > 0
    /\ LET r == PSBT_parse(last.pre)
       IN /\ psbts' = IF r.err = "ok" THEN <<r.psbt[1]>> ELSE <<>>
          /\ last' = [op |-> "parse", c |-> 1, err |-> r.err, pre |-> last.pre, was |-> {}]
    /\ steps' = steps - 1
    /\ UNCHANGED finalized

NextParse == Parse

SpecParse == InitParse /\ [][NextParse]_vars

-----------------------------------------------------------------------------
(* PSBT.sign and PSBT.sign_with_private_keys, call by call *)

\* what the updater of a PSBT knew of the signers' keys
KnownSigners == {{1}, {2}, Signers}

\* a PSBT over a transaction with two inputs, parsed with or without a
\* signature of a foreign key on its inputs and completed by an updater who
\* knows the keys of S
AnnotatedPSBT(tx_obj, S, foreign) ==
    PSBT_update(
        PSBT_init(tx_obj,
                  [i \in DOMAIN tx_obj.tx_ins |->
                      PSBTIn_init(tx_obj.tx_ins[i], None, None,
                                  IF foreign
                                  THEN <<[sec |-> sec(ForeignPoint),
                                          sig |-> Signature(i, ForeignPoint, "legacy", None, None)]>>
                                  ELSE <<>>,
                                  None, <<>>)],
                  [i \in DOMAIN tx_obj.tx_outs |-> PSBTOut_init(tx_obj.tx_outs[i], <<>>)],
                  <<>>, <<>>),
        TxLookup(TRUE), PubkeyLookup(S), RedeemLookup(TRUE), WitnessLookup(TRUE)).psbt

\* one PSBT before its signers sign it: an updated one, or one whose inputs
\* carry a key annotation and no previous output
InitSign ==
    /\ \/ \E tx_obj \in FinalTxObjs : \E S \in KnownSigners : \E foreign \in BOOLEAN :
            psbts = [c \in {1} |-> AnnotatedPSBT(tx_obj, S, foreign)]
       \/ \E tx_obj \in PartyTxObjs : \E prof \in PartyProfiles :
            /\ psbts = [c \in {1} |-> PartyPSBT(tx_obj, prof)]
            /\ \A i \in DOMAIN psbts[1].psbt_ins : PSBTIn_init_ok(psbts[1].psbt_ins[i])
    /\ PSBT_validate(psbts[1]) = "ok"
    /\ finalized = {}
    /\ last = NoCall
    /\ steps = MaxSignSteps

\* psbt.sign(hd_priv), with the PSBT before the call kept in the history
SignCall ==
    /\ steps > 0
    /\ \E fingerprint \in Signers :
         LET r == PSBT_sign(psbts[1], fingerprint)
         IN /\ psbts' = [psbts EXCEPT ![1] = r.psbt]
            /\ last' = [op |-> "sign", c |-> 1, err |-> r.err, pre |-> psbts[1],
                        was |-> {}, signer |-> fingerprint]
    /\ steps' = steps - 1
    /\ UNCHANGED finalized

\* psbt.sign_with_private_keys([private_key]), with the PSBT before the call
\* kept in the history
SignWithPrivateKeysCall ==
    /\ steps > 0
    /\ \E s \in Signers :
         LET r == PSBT_sign_with_private_keys(psbts[1], Point(s))
         IN /\ psbts' = [psbts EXCEPT ![1] = r.psbt]
            /\ last' = [op |-> "sign_with_private_keys", c |-> 1, err |-> r.err,
                        pre |-> psbts[1], was |-> {}, signer |-> s]
    /\ steps' = steps - 1
    /\ UNCHANGED finalized

NextSign ==
    \/ SignCall
    \/ SignWithPrivateKeysCall

SpecSign == InitSign /\ [][NextSign]_vars

-----------------------------------------------------------------------------
(* PSBT.create *)

\* "if tx_in.witness": a Witness is true if it has items
WitnessTruthy(witness) == witness # <<>>

\* the loop over the inputs of PSBT.create leaving the witness on the input
Detach_KeepsWitness(tx_in) ==
    LET script_sig == IF tx_in.script_sig[1] # <<>> THEN tx_in.script_sig ELSE None
        witness == IF WitnessTruthy(tx_in.witness) THEN Some(tx_in.witness) ELSE None
        emptied == [tx_in EXCEPT
                      !.script_sig = IF tx_in.script_sig[1] # <<>> THEN Some(<<>>) ELSE @]
    IN [tx_in |-> emptied,
        psbt_in |-> [PSBTIn_init(emptied, None, None, <<>>, None, <<>>) EXCEPT
                       !.script_sig = script_sig, !.witness = witness]]

\* the loop over the inputs of PSBT.create, for one input: the unlocking
\* data saved, the input afterwards and the PSBTIn built with them
Detach(tx_in) ==
    LET script_sig == IF tx_in.script_sig[1] # <<>> THEN tx_in.script_sig ELSE None
        witness == IF WitnessTruthy(tx_in.witness) THEN Some(tx_in.witness) ELSE None
        emptied == [tx_in EXCEPT
                      !.script_sig = IF tx_in.script_sig[1] # <<>> THEN Some(<<>>) ELSE @,
                      !.witness = IF WitnessTruthy(tx_in.witness) THEN <<>> ELSE @]
    IN [tx_in |-> emptied,
        psbt_in |-> [PSBTIn_init(emptied, None, None, <<>>, None, <<>>) EXCEPT
                       !.script_sig = script_sig, !.witness = witness]]

\* PSBT.create(tx_obj): the PSBT built, if the constructor raises nothing,
\* and the exception raised
PSBT_create(tx_obj) ==
    LET skeleton == [tx_obj EXCEPT !.tx_ins = [i \in DOMAIN tx_obj.tx_ins |-> Detach(tx_obj.tx_ins[i]).tx_in]]
        psbt == PSBT_init(skeleton,
                          [i \in DOMAIN tx_obj.tx_ins |-> Detach(tx_obj.tx_ins[i]).psbt_in],
                          [i \in DOMAIN tx_obj.tx_outs |-> PSBTOut_init(tx_obj.tx_outs[i], <<>>)],
                          <<>>, <<>>)
        err == IF \E i \in DOMAIN psbt.psbt_ins : PSBTIn_validate(psbt.psbt_ins[i]) # "ok"
               THEN "ValueError"
               ELSE PSBT_validate(psbt)
    IN [psbt |-> IF err = "ok" THEN Some(psbt) ELSE None, err |-> err]

\* the unlocking data of an input after the signers have signed: that of the
\* finalized input if it can be finalized, none otherwise
UnlockedInput(p) ==
    LET r == PSBTIn_finalize(p)
    IN IF script_pubkey(p) # None /\ r.err = "ok"
       THEN [prev_tx |-> p.tx_in.prev_tx, prev_index |-> p.tx_in.prev_index,
             script_sig |-> IF Truthy(r.p.script_sig) THEN r.p.script_sig ELSE Some(<<>>),
             witness |-> IF Truthy(r.p.witness) THEN r.p.witness[1] ELSE <<>>]
       ELSE [prev_tx |-> p.tx_in.prev_tx, prev_index |-> p.tx_in.prev_index,
             script_sig |-> Some(<<>>), witness |-> <<>>]

\* the PSBT of a transaction, updated with full knowledge and signed by the
\* signers of S
SignedBy(tx_obj, S) ==
    LET psbt == PSBT_init(tx_obj,
                          [i \in DOMAIN tx_obj.tx_ins |->
                              PSBTIn_init(tx_obj.tx_ins[i], None, None, <<>>, None, <<>>)],
                          [i \in DOMAIN tx_obj.tx_outs |-> PSBTOut_init(tx_obj.tx_outs[i], <<>>)],
                          <<>>, <<>>)
        updated == PSBT_update(psbt, TxLookup(TRUE), PubkeyLookup(Signers),
                               RedeemLookup(TRUE), WitnessLookup(TRUE)).psbt
    IN IF S = {} THEN updated
       ELSE IF S = {1} THEN PSBT_sign(updated, 1).psbt
       ELSE PSBT_sign(PSBT_sign(updated, 1).psbt, 2).psbt

\* a transaction as a wallet hands it to create: the inputs that the signers
\* of S could finalize carry their unlocking data, the others carry none
SignedTxsOf(tx_obj, S) ==
    {[tx_obj EXCEPT !.tx_ins = [i \in DOMAIN tx_obj.tx_ins |-> UnlockedInput(signed.psbt_ins[i])]] :
        signed \in {SignedBy(tx_obj, S)}}

\* a partially signed legacy transaction: the unlocking script of a multisig
\* input holds one signature less than the script asks for
PartlySigned(tx_obj) ==
    [tx_obj EXCEPT
       !.tx_ins = [i \in DOMAIN @ |->
                     IF Len(@[i].script_sig[1]) >= 4
                     THEN [@[i] EXCEPT !.script_sig =
                             Some(<<@[1][1], @[1][2], @[1][Len(@[1])]>>)]
                     ELSE @[i]]]

\* the transactions handed to create
SignedTxs ==
    LET signed == UNION {SignedTxsOf(tx_obj, S) : tx_obj \in FinalTxObjs, S \in {{}, {1}, {1, 2}}}
    IN signed \cup {PartlySigned(tx_obj) : tx_obj \in signed}

\* a caller holds a transaction and no PSBT yet
InitCreate ==
    /\ psbts = <<>>
    /\ finalized = {}
    /\ \E tx_obj \in SignedTxs :
         last = [op |-> "tx", c |-> 0, err |-> "ok", pre |-> tx_obj, was |-> {}]
    /\ steps = MaxCreateSteps

\* PSBT.create on the transaction
Create ==
    /\ steps > 0
    /\ last.op = "tx"
    /\ LET r == PSBT_create(last.pre)
       IN /\ psbts' = IF r.err = "ok" THEN <<r.psbt[1]>> ELSE <<>>
          /\ last' = [op |-> "create", c |-> 1, err |-> r.err, pre |-> last.pre, was |-> {}]
    /\ steps' = steps - 1
    /\ UNCHANGED finalized

NextCreate == Create

SpecCreate == InitCreate /\ [][NextCreate]_vars

-----------------------------------------------------------------------------
\* C22: every valid PSBT reachable through create, update, sign, combine and
\* finalize parses back from its serialization without an exception, and the
\* parsed PSBT serializes to the same bytes
C22_RoundTrip ==
    \A c \in DOMAIN psbts :
        PSBT_validate(psbts[c]) = "ok" =>
            LET r == PSBT_parse(PSBT_serialize(psbts[c]))
            IN /\ r.err = "ok"
               /\ PSBT_serialize(r.psbt[1]) = PSBT_serialize(psbts[c])

-----------------------------------------------------------------------------
\* the keys of the entries of one serialized map, in the order of the stream
MapKeys(m) == [j \in 1..((Len(m) - 1) \div 2) |-> m[2 * j - 1]]

\* those of one type
KeysOfType(m, type) == SelectSeq(MapKeys(m), LAMBDA key : KeyType(key) = type)

\* the position of a key in the order of the key bytes of its type
KeyRank(key) == IF KeyType(key) = "unknown" THEN ByteRank(key) ELSE ByteRank(KeyData(key))

Ascending(keys) == \A j, k \in DOMAIN keys : j < k => KeyRank(keys[j]) <= KeyRank(keys[k])

Reversed(seq) == [j \in DOMAIN seq |-> seq[Len(seq) + 1 - j]]

\* key annotations, extended keys and unknown entries come out in ascending
\* order of their keys, and the order in which the signatures were inserted
\* does not show in the bytes
OtherEntriesSorted(psbt) ==
    /\ Ascending(KeysOfType(GlobalEntries(psbt), PSBT_GLOBAL_XPUB))
    /\ Ascending(KeysOfType(GlobalEntries(psbt), "unknown"))
    /\ \A i \in DOMAIN psbt.psbt_ins :
         LET p == psbt.psbt_ins[i]
         IN /\ Ascending(KeysOfType(PSBTIn_serialize(p), PSBT_IN_BIP32_DERIVATION))
            /\ Ascending(KeysOfType(PSBTIn_serialize(p), "unknown"))
            /\ PSBTIn_serialize([p EXCEPT !.sigs = Reversed(p.sigs)]) = PSBTIn_serialize(p)
    /\ \A i \in DOMAIN psbt.psbt_outs :
         LET o == psbt.psbt_outs[i]
         IN /\ Ascending(KeysOfType(PSBTOut_serialize(o), PSBT_OUT_BIP32_DERIVATION))
            /\ Ascending(KeysOfType(PSBTOut_serialize(o), "unknown"))

\* the script whose commands order the signatures of an input, if any
OrderingScript(p) ==
    IF Truthy(p.witness_script) THEN p.witness_script
    ELSE IF Truthy(p.redeem_script) /\ ~is_p2wpkh(p.redeem_script[1]) THEN p.redeem_script
    ELSE None

\* the keys of the signature entries follow the commands of the script: they
\* are the key pushes of the script that have a signature, one after the other
FollowsScript(keys, script, sigs) ==
    LET pushes == SelectSeq(script, LAMBDA command : IsData(command) /\ command.data \in OKeys(sigs))
    IN /\ Len(keys) = Len(pushes)
       /\ \A j \in DOMAIN keys : KeyData(keys[j]) = pushes[j].data

\* C23 (as stated): partial-signature, key-annotation, extended-key and extra
\* entries are each emitted in ascending order of their key bytes, whatever
\* the insertion order and whether or not a redeem or witness script is present
C23_SortedKeyOrder ==
    \A c \in DOMAIN psbts :
        /\ OtherEntriesSorted(psbts[c])
        /\ \A i \in DOMAIN psbts[c].psbt_ins :
             LET p == psbts[c].psbt_ins[i]
                 keys == KeysOfType(PSBTIn_serialize(p), PSBT_IN_PARTIAL_SIG)
             IN Ascending(keys)

\* C23 (amended): key-annotation, extended-key and extra entries are emitted
\* in ascending order of their key bytes; partial-signature entries are
\* emitted in ascending order of their key bytes when the input carries no
\* witness script and no redeem script other than a P2WPKH program, and
\* otherwise in the order in which their keys occur in the commands of the
\* witness script, or of the redeem script if there is no witness script;
\* the insertion order never shows
C23_DeterministicKeyOrder ==
    \A c \in DOMAIN psbts :
        /\ OtherEntriesSorted(psbts[c])
        /\ \A i \in DOMAIN psbts[c].psbt_ins :
             LET p == psbts[c].psbt_ins[i]
                 keys == KeysOfType(PSBTIn_serialize(p), PSBT_IN_PARTIAL_SIG)
             IN IF OrderingScript(p) = None
                THEN Ascending(keys)
                ELSE FollowsScript(keys, OrderingScript(p)[1], p.sigs)

\* an input with a witness script whose signatures are serialized in an order
\* that is not the ascending one
C23_Witness ==
    \E c \in DOMAIN psbts : \E i \in DOMAIN psbts[c].psbt_ins :
        LET p == psbts[c].psbt_ins[i]
            keys == KeysOfType(PSBTIn_serialize(p), PSBT_IN_PARTIAL_SIG)
        IN /\ Truthy(p.witness_script)
           /\ Len(keys) >= 2
           /\ KeyRank(keys[1]) > KeyRank(keys[2])

-----------------------------------------------------------------------------
RECURSIVE HasDuplicateKey(_, _)
\* some map of the stream holds two entries with the same key: seen are the
\* keys of the map being read
HasDuplicateKey(s, seen) ==
    IF s = <<>> THEN FALSE
    ELSE IF Head(s) = PSBT_DELIMITER THEN HasDuplicateKey(Tail(s), <<>>)
    ELSE IF \E j \in DOMAIN seen : seen[j] = Head(s) THEN TRUE
    ELSE HasDuplicateKey(Tail(Tail(s)), Append(seen, Head(s)))

\* C24: a stream in which a key occurs twice within one map (global, input or
\* output; unsigned transaction, extended key, provenance, partial signature,
\* hash type, script, key annotation or unrecognized key, whatever the value)
\* is rejected by PSBT.parse
C24_DuplicateKeysRejected ==
    (last.op = "parse" /\ HasDuplicateKey(Tail(Tail(last.pre)), <<>>)) => last.err # "ok"

-----------------------------------------------------------------------------
\* the unknown key/value pairs a PSBT holds in its extra maps, each with the
\* map it belongs to
HeldUnknown(psbt) ==
    {<<"global", 0, k, psbt.extra_map[k]>> : k \in DOMAIN psbt.extra_map}
    \cup UNION {{<<"in", i, k, psbt.psbt_ins[i].extra_map[k]>> :
                    k \in DOMAIN psbt.psbt_ins[i].extra_map} : i \in DOMAIN psbt.psbt_ins}
    \cup UNION {{<<"out", i, k, psbt.psbt_outs[i].extra_map[k]>> :
                    k \in DOMAIN psbt.psbt_outs[i].extra_map} : i \in DOMAIN psbt.psbt_outs}

\* the entries with an unrecognized key of one serialized map
UnknownEntries(m) ==
    {<<m[2 * j - 1], m[2 * j]>> : j \in {x \in 1..((Len(m) - 1) \div 2) : KeyType(m[2 * x - 1]) = "unknown"}}

\* the unknown key/value pairs in the bytes of a PSBT
SerializedUnknown(psbt) ==
    {<<"global", 0, e[1], e[2]>> : e \in UnknownEntries(GlobalEntries(psbt))}
    \cup UNION {{<<"in", i, e[1], e[2]>> : e \in UnknownEntries(PSBTIn_serialize(psbt.psbt_ins[i]))} :
                  i \in DOMAIN psbt.psbt_ins}
    \cup UNION {{<<"out", i, e[1], e[2]>> : e \in UnknownEntries(PSBTOut_serialize(psbt.psbt_outs[i]))} :
                  i \in DOMAIN psbt.psbt_outs}

\* C25: every unrecognized key/value pair held in a global, input or output
\* extra map is in the serialization, byte for byte, and stays there across
\* every update, sign, combine (in the receiver) and finalize
C25_UnknownFieldsPreserved ==
    [][\A c \in DOMAIN psbts :
          /\ HeldUnknown(psbts[c]) \subseteq SerializedUnknown(psbts[c])
          /\ HeldUnknown(psbts[c]) \subseteq SerializedUnknown(psbts'[c])]_vars

\* the first holder has combined the second one's copy into its own: it has
\* the other's unknown entry and its own value of the key both use
C25_Witness ==
    /\ last.op = "combine"
    /\ last.c = 1
    /\ last.err = "ok"
    /\ ExtraKey(2) \in DOMAIN psbts[1].extra_map
    /\ psbts[1].extra_map[ExtraKey(1)] = "a"

-----------------------------------------------------------------------------
\* the unlocking data a PSBTIn holds: the commands of its script_sig and the
\* items of its witness, empty where it holds none
HeldUnlockingData(p) ==
    <<IF Truthy(p.script_sig) THEN p.script_sig[1] ELSE <<>>,
      IF Truthy(p.witness) THEN p.witness[1] ELSE <<>>>>

\* C26: after create(tx) every input of the skeleton carries an empty
\* script_sig and an empty witness, and each PSBTIn holds exactly the
\* unlocking data its transaction input carried before the call
C26_CreateDetachesUnlockingData ==
    (last.op = "create" /\ last.err = "ok") =>
        \A i \in DOMAIN psbts[1].psbt_ins :
            /\ psbts[1].tx_obj.tx_ins[i].script_sig = Some(<<>>)
            /\ psbts[1].tx_obj.tx_ins[i].witness = <<>>
            /\ HeldUnlockingData(psbts[1].psbt_ins[i])
                  = <<last.pre.tx_ins[i].script_sig[1], last.pre.tx_ins[i].witness>>

\* create has returned a PSBT for a transaction with an input that carried an
\* unlocking script and a witness, and one that carried a witness only
C26_Witness ==
    /\ last.op = "create"
    /\ last.err = "ok"
    /\ \E i \in DOMAIN last.pre.tx_ins :
         last.pre.tx_ins[i].script_sig[1] # <<>> /\ last.pre.tx_ins[i].witness # <<>>
    /\ \E i \in DOMAIN last.pre.tx_ins :
         last.pre.tx_ins[i].script_sig[1] = <<>> /\ last.pre.tx_ins[i].witness # <<>>

-----------------------------------------------------------------------------
(* Script.parse and Script.raw_serialize, byte by byte (script.py) *)

\* A byte string is kept as its runs: <<v, n>> stands for n bytes of value
\* v. No run is empty and neighbouring runs differ in value, so equal byte
\* strings are equal sequences of runs.
Run(v, n) == IF n = 0 THEN <<>> ELSE <<<<v, n>>>>

\* a + b on bytes
Cat(a, b) ==
    IF a = <<>> THEN b
    ELSE IF b = <<>> THEN a
    ELSE IF a[Len(a)][1] = b[1][1]
    THEN SubSeq(a, 1, Len(a) - 1) \o <<<<b[1][1], a[Len(a)][2] + b[1][2]>>>> \o Tail(b)
    ELSE a \o b

RECURSIVE BLen(_)
\* len(b) on bytes
BLen(b) == IF b = <<>> THEN 0 ELSE b[1][2] + BLen(Tail(b))

RECURSIVE Take(_, _)
\* b[:n]: the first n bytes, fewer if b is shorter
Take(b, n) ==
    IF n = 0 \/ b = <<>> THEN <<>>
    ELSE IF b[1][2] >= n THEN <<<<b[1][1], n>>>>
    ELSE <<b[1]>> \o Take(Tail(b), n - b[1][2])

RECURSIVE Drop(_, _)
\* b[n:]
Drop(b, n) ==
    IF n = 0 \/ b = <<>> THEN b
    ELSE IF b[1][2] > n THEN <<<<b[1][1], b[1][2] - n>>>> \o Tail(b)
    ELSE Drop(Tail(b), n - b[1][2])

\* BytesIO.read(n): the bytes read, fewer than n at the end of the stream,
\* and the stream afterwards
read(s, n) == [data |-> Take(s, n), s |-> Drop(s, n)]

\* helper.int_to_byte
int_to_byte(n) == Run(n, 1)

RECURSIVE int_to_little_endian_bytes(_, _)
\* helper.int_to_little_endian, byte by byte
int_to_little_endian_bytes(n, length) ==
    IF length = 0 THEN <<>>
    ELSE Cat(Run(n % 256, 1), int_to_little_endian_bytes(n \div 256, length - 1))

RECURSIVE byte_to_int(_)
\* helper.byte_to_int on the bytes of a length prefix: the length they
\* announce, least significant byte first
byte_to_int(b) ==
    IF b = <<>> THEN 0 ELSE b[1][1] + 256 * byte_to_int(Drop(b, 1))

\* helper.encode_varint for lengths below 0x10000
encode_varint(n) ==
    IF n < 253 THEN Run(n, 1) ELSE Cat(Run(253, 1), int_to_little_endian_bytes(n, 2))

\* helper.encode_varstr
encode_varstr(b) == Cat(encode_varint(BLen(b)), b)

\* helper.read_varint for lengths below 0x10000: the length, the stream
\* afterwards and the error of a stream that ends inside the prefix
read_varint(s) ==
    LET first == read(s, 1)
        wide == read(first.s, 2)
    IN IF first.data = <<>> THEN [n |-> 0, s |-> first.s, err |-> "FormatError"]
       ELSE IF first.data[1][1] < 253 THEN [n |-> first.data[1][1], s |-> first.s, err |-> "ok"]
       ELSE IF BLen(wide.data) < 2 THEN [n |-> 0, s |-> wide.s, err |-> "FormatError"]
       ELSE [n |-> byte_to_int(wide.data), s |-> wide.s, err |-> "ok"]

\* commands.append(s.read(n)); count += n + width, for a push whose length
\* prefix took width bytes after the current byte; pushes keeps, for each
\* push, the length announced and the number of bytes read
ReadPush(st, s, count, n, width) ==
    LET r == read(s, n)
    IN [st EXCEPT !.s = r.s,
                  !.count = count + n + width,
                  !.commands = Append(@, Data(r.data)),
                  !.pushes = Append(@, <<n, BLen(r.data)>>)]

RECURSIVE Script_parse_loop(_)
\* the while loop of Script.parse
Script_parse_loop(st) ==
    IF st.err # "ok" \/ ~(st.count < st.length) THEN st
    ELSE LET current == read(st.s, 1)
             count == st.count + 1
         IN IF current.data = <<>> THEN [st EXCEPT !.err = "IndexError"]
            ELSE LET current_byte == current.data[1][1]
                     prefix1 == read(current.s, 1)
                     prefix2 == read(current.s, 2)
                 IN IF current_byte >= 1 /\ current_byte <= 75
                    THEN Script_parse_loop(ReadPush(st, current.s, count, current_byte, 0))
                    ELSE IF current_byte = 76
                    THEN IF BLen(prefix1.data) < 1 THEN [st EXCEPT !.err = "FormatError"]
                         ELSE Script_parse_loop(
                                 ReadPush(st, prefix1.s, count, byte_to_int(prefix1.data), 1))
                    ELSE IF current_byte = 77
                    THEN IF BLen(prefix2.data) < 2 THEN [st EXCEPT !.err = "FormatError"]
                         ELSE Script_parse_loop(
                                 ReadPush(st, prefix2.s, count, byte_to_int(prefix2.data), 2))
                    ELSE Script_parse_loop([st EXCEPT !.s = current.s,
                                                      !.count = count,
                                                      !.commands = Append(@, Op(current_byte))])

\* Script.parse(s): the commands, the exception raised ("ok" if none), the
\* declared length, the bytes the stream held after it, the bytes read from
\* the stream, the count of the loop and the pushes
Script_parse_stream(s) ==
    LET v == read_varint(s)
        st == Script_parse_loop([s |-> v.s, length |-> v.n, count |-> 0,
                                 commands |-> <<>>, pushes |-> <<>>, err |-> v.err])
    IN [commands |-> st.commands,
        err |-> IF st.err # "ok" THEN st.err
                ELSE IF st.count # st.length THEN "SyntaxError"
                ELSE "ok",
        length |-> v.n,
        available |-> BLen(v.s),
        consumed |-> BLen(v.s) - BLen(st.s),
        count |-> st.count,
        pushes |-> st.pushes]

\* the body of the loop of Script.raw_serialize: the bytes of one command
SerializeCommand(command) ==
    IF IsOp(command) THEN [out |-> int_to_byte(command.op), err |-> "ok"]
    ELSE LET length == BLen(command.data)
         IN IF length < 75
            THEN [out |-> Cat(int_to_byte(length), command.data), err |-> "ok"]
            ELSE IF length > 75 /\ length < 256
            THEN [out |-> Cat(Cat(int_to_byte(76), int_to_byte(length)), command.data),
                  err |-> "ok"]
            ELSE IF length >= 256 /\ length <= 520
            THEN [out |-> Cat(Cat(int_to_byte(77), int_to_little_endian_bytes(length, 2)),
                              command.data),
                  err |-> "ok"]
            ELSE [out |-> <<>>, err |-> "ValueError"]

RECURSIVE Script_raw_serialize(_)
\* Script.raw_serialize: the bytes and the exception raised ("ok" if none)
Script_raw_serialize(commands) ==
    IF commands = <<>> THEN [out |-> <<>>, err |-> "ok"]
    ELSE LET head == SerializeCommand(commands[1])
             rest == Script_raw_serialize(Tail(commands))
         IN IF head.err # "ok" THEN head
            ELSE IF rest.err # "ok" THEN rest
            ELSE [out |-> Cat(head.out, rest.out), err |-> "ok"]

\* Script.serialize
Script_serialize(commands) ==
    LET raw == Script_raw_serialize(commands)
    IN IF raw.err # "ok" THEN [out |-> <<>>, raw |-> <<>>, err |-> raw.err]
       ELSE [out |-> encode_varstr(raw.out), raw |-> raw.out, err |-> "ok"]

\* the lengths of the pushes of the scripts: around every boundary of the
\* encoding
PushLengths == {0, 1, 2, 74, 75, 76, 255, 256, 520, 521, 600}

\* the opcodes of the scripts: bytes that are no push prefix
Opcodes == {0, 78, 172}

\* the commands of the scripts; a push is filled with one byte value
ScriptCommands ==
    {Op(n) : n \in Opcodes} \cup {Data(Run(2, n)) : n \in PushLengths}

\* the scripts handed to serialize
CommandLists == UNION {[1..n -> ScriptCommands] : n \in 0..MaxCommands}

\* the streams handed to parse: the serialization of a script, with a declared
\* length one less, equal to or one more than that of the commands, and with
\* up to MaxCut bytes missing at the end
ScriptStreams ==
    UNION {{Cat(encode_varint(BLen(raw.out) + d - 1), Take(raw.out, BLen(raw.out) - cut)) :
               d \in {d \in 0..2 : BLen(raw.out) + d - 1 >= 0},
               cut \in {cut \in 0..MaxCut : cut <= BLen(raw.out)}} :
           raw \in {r \in {Script_raw_serialize(commands) : commands \in CommandLists} :
                       r.err = "ok"}}

\* a script about to be serialized, or a stream about to be parsed
InitScript ==
    /\ psbts = <<>>
    /\ finalized = {}
    /\ \/ \E commands \in CommandLists :
            last = [op |-> "commands", c |-> 0, err |-> "ok", pre |-> commands, was |-> {}]
       \/ \E s \in ScriptStreams :
            last = [op |-> "stream", c |-> 0, err |-> "ok", pre |-> s, was |-> {}]
    /\ steps = MaxScriptSteps

\* Script(commands).serialize()
SerializeScript ==
    /\ steps > 0
    /\ last.op = "commands"
    /\ LET r == Script_serialize(last.pre)
       IN last' = [op |-> "serialize", c |-> 0, err |-> r.err, pre |-> last.pre, was |-> {},
                   out |-> r.out, raw |-> r.raw]
    /\ steps' = steps - 1
    /\ UNCHANGED <<psbts, finalized>>

\* Script.parse on a received stream or on the serialization of a script
ParseScript ==
    /\ steps > 0
    /\ \/ last.op = "stream"
       \/ last.op = "serialize" /\ last.err = "ok"
    /\ LET s == IF last.op = "stream" THEN last.pre ELSE last.out
           r == Script_parse_stream(s)
       IN last' = [op |-> "parse", c |-> 0, err |-> r.err, pre |-> s, was |-> {},
                   out |-> r, src |-> IF last.op = "serialize" THEN Some(last.pre) ELSE None]
    /\ steps' = steps - 1
    /\ UNCHANGED <<psbts, finalized>>

NextScript ==
    \/ SerializeScript
    \/ ParseScript

SpecScript == InitScript /\ [][NextScript]_vars

-----------------------------------------------------------------------------
(* Properties of signing *)

\* a PSBT without the signature maps of its inputs
WithoutSigs(psbt) ==
    [psbt EXCEPT !.psbt_ins = [i \in DOMAIN @ |-> [@[i] EXCEPT !.sigs = <<>>]]]

\* the input carries a key annotation matching the signer of the last call:
\* one with the fingerprint of the extended private key, or one under the
\* public key of the raw private key
MatchesSigner(p) ==
    IF last.op = "sign"
    THEN \E b \in DOMAIN p.named_pubs : p.named_pubs[b].root_fingerprint = last.signer
    ELSE sec(Point(last.signer)) \in DOMAIN p.named_pubs

\* the public key belongs to the signer of the last call
KeyOfSigner(b) == b[2][1] = last.signer

\* C27: a sign call, by extended private key or by raw private key, changes
\* only the signature maps of the inputs; every signature recorded under a
\* key of somebody else is unchanged afterwards, and an input receives a new
\* entry only if it carries a key annotation matching the signer
C27_SigningTouchesOnlySignatures ==
    last.op \in {"sign", "sign_with_private_keys"} =>
        /\ WithoutSigs(psbts[1]) = WithoutSigs(last.pre)
        /\ \A i \in DOMAIN last.pre.psbt_ins :
             /\ \A b \in OKeys(last.pre.psbt_ins[i].sigs) :
                  ~KeyOfSigner(b) =>
                     OGet(psbts[1].psbt_ins[i].sigs, b) = OGet(last.pre.psbt_ins[i].sigs, b)
             /\ ~(OKeys(psbts[1].psbt_ins[i].sigs) \subseteq OKeys(last.pre.psbt_ins[i].sigs)) =>
                  MatchesSigner(last.pre.psbt_ins[i])

\* a sign call has added a signature to an input that held the signature of
\* another key, and none to an input without an annotation of the signer
C27_Witness ==
    /\ last.op \in {"sign", "sign_with_private_keys"}
    /\ last.err = "ok"
    /\ \E i \in DOMAIN last.pre.psbt_ins :
         /\ \E b \in OKeys(last.pre.psbt_ins[i].sigs) : ~KeyOfSigner(b)
         /\ ~(OKeys(psbts[1].psbt_ins[i].sigs) \subseteq OKeys(last.pre.psbt_ins[i].sigs))
    /\ \E i \in DOMAIN last.pre.psbt_ins :
         /\ ~MatchesSigner(last.pre.psbt_ins[i])
         /\ psbts[1].psbt_ins[i].sigs = last.pre.psbt_ins[i].sigs

-----------------------------------------------------------------------------
(* Properties of Script.raw_serialize *)

\* the lengths of the pushes of a script
PushesOf(commands) == {BLen(commands[j].data) : j \in {j \in DOMAIN commands : IsData(commands[j])}}

\* the prefix of a push of n bytes: a direct length byte up to 75, the tag 76
\* and a 1-byte length up to 255, the tag 77 and a 2-byte little-endian
\* length up to 520
PushPrefix(n) ==
    IF n <= 75 THEN <<<<n, 1>>>>
    ELSE IF n <= 255 THEN Cat(<<<<76, 1>>>>, <<<<n, 1>>>>)
    ELSE Cat(<<<<77, 1>>>>, Cat(<<<<n % 256, 1>>>>, <<<<n \div 256, 1>>>>))

RECURSIVE Encoded(_)
\* the bytes of a script whose pushes carry these prefixes
Encoded(commands) ==
    IF commands = <<>> THEN <<>>
    ELSE Cat(IF IsOp(commands[1]) THEN <<<<commands[1].op, 1>>>>
             ELSE Cat(PushPrefix(BLen(commands[1].data)), commands[1].data),
             Encoded(Tail(commands)))

\* C28: raw_serialize chooses the push prefix by length for every data push:
\* 1 to 75 a direct length byte, 76 to 255 the tag 76 and a 1-byte length,
\* 256 to 520 the tag 77 and a 2-byte little-endian length; a push longer than
\* 520 bytes makes serialization fail and no length from 1 to 520 does
C28_PushPrefixByLength ==
    (last.op = "serialize" /\ 0 \notin PushesOf(last.pre)) =>
        IF \E n \in PushesOf(last.pre) : n > 520
        THEN last.err # "ok"
        ELSE last.err = "ok" /\ last.raw = Encoded(last.pre)

-----------------------------------------------------------------------------
(* Properties of the round trip of a script *)

\* C29: for every script of opcodes that are no push prefixes and of pushes
\* of at most 520 bytes, serialize succeeds and Script.parse of the
\* serialization returns a script with an equal command sequence
C29_ScriptRoundTrip ==
    /\ (last.op = "serialize" /\ \A n \in PushesOf(last.pre) : n <= 520) => last.err = "ok"
    /\ (last.op = "parse" /\ last.src # None) =>
          last.err = "ok" /\ last.out.commands = last.src[1]

-----------------------------------------------------------------------------
(* Properties of Script.parse *)

\* C30: Script.parse returns a script only when the bytes read from the
\* stream are as many as the declared length and every push holds as many
\* bytes as its prefix announces; a push that overruns the declared length
\* and a stream that ends early make it fail
C30_ParseChecksLengths ==
    last.op = "parse" =>
        /\ last.err = "ok" =>
              /\ last.out.consumed = last.out.length
              /\ \A j \in DOMAIN last.out.pushes : last.out.pushes[j][2] = last.out.pushes[j][1]
        /\ (last.out.count > last.out.length \/ last.out.available < last.out.length) =>
              last.err # "ok"

-----------------------------------------------------------------------------
(* Script.evaluate (script.py), one command of the work queue at a time *)

\* b"", which op_0 pushes and which counts as false
EmptyBytes == <<"empty">>

\* encode_num(1), which the comparing and the checking operations push
OneByte == <<"x01">>

\* a signature of the private key of the point over the signature hash z
SigOver(point, z) == <<"der", point, z>>

\* Script.parse(BytesIO(encode_varstr(b))).commands: the commands of the
\* script that b serializes; b"" holds no command
ParseCommands(b) ==
    IF b = EmptyBytes THEN [commands |-> <<>>, err |-> "ok"]
    ELSE IF b[1] = "raw" THEN [commands |-> b[2], err |-> "ok"]
    ELSE [commands |-> <<>>, err |-> "SyntaxError"]

Top(stack) == stack[Len(stack)]
Pop(stack) == SubSeq(stack, 1, Len(stack) - 1)

\* an operation returns False, or True with the stack it leaves
Failed(stack) == [ok |-> FALSE, stack |-> stack]
Passed(stack) == [ok |-> TRUE, stack |-> stack]

op_verify(stack) ==
    IF Len(stack) < 1 THEN Failed(stack)
    ELSE IF Top(stack) = EmptyBytes THEN Failed(Pop(stack))
    ELSE Passed(Pop(stack))

op_dup(stack) ==
    IF Len(stack) < 1 THEN Failed(stack) ELSE Passed(Append(stack, Top(stack)))

op_hash160(stack) ==
    IF Len(stack) < 1 THEN Failed(stack)
    ELSE Passed(Append(Pop(stack), hash160(Top(stack))))

op_equal(stack) ==
    IF Len(stack) < 2 THEN Failed(stack)
    ELSE Passed(Append(Pop(Pop(stack)),
                       IF Top(stack) = Top(Pop(stack)) THEN OneByte ELSE EmptyBytes))

op_equalverify(stack) ==
    IF ~op_equal(stack).ok THEN op_equal(stack) ELSE op_verify(op_equal(stack).stack)

\* op_checksig(stack, z): the top is the public key, below it the signature
op_checksig(stack, z) ==
    IF Len(stack) < 2 THEN Failed(stack)
    ELSE Passed(Append(Pop(Pop(stack)),
                       IF Top(stack)[1] = "sec" /\ Top(Pop(stack)) = SigOver(Top(stack)[2], z)
                       THEN OneByte ELSE EmptyBytes))

\* the opcodes of OP_CODE_FUNCTIONS that the scripts use: OP_0, OP_1, OP_NOP,
\* OP_VERIFY, OP_RETURN, OP_DUP, OP_EQUAL, OP_EQUALVERIFY, OP_HASH160,
\* OP_CHECKSIG
KnownOps == {OP_0, 81, 97, 105, 106, OP_DUP, OP_EQUAL, OP_EQUALVERIFY, OP_HASH160, OP_CHECKSIG}

\* operation(stack), operation(stack, z) for operation = OP_CODE_FUNCTIONS[n]
Operation(n, stack, z) ==
    CASE n = OP_0 -> Passed(Append(stack, EmptyBytes))
      [] n = 81 -> Passed(Append(stack, OneByte))
      [] n = 97 -> Passed(stack)
      [] n = 105 -> op_verify(stack)
      [] n = 106 -> Failed(stack)
      [] n = OP_DUP -> op_dup(stack)
      [] n = OP_EQUAL -> op_equal(stack)
      [] n = OP_EQUALVERIFY -> op_equalverify(stack)
      [] n = OP_HASH160 -> op_hash160(stack)
      [] n = OP_CHECKSIG -> op_checksig(stack, z)

\* "return False" after an operation that returned False, without the return
Abort_GoesOn(st) == [st EXCEPT !.bad = TRUE, !.failed_at = st.executed]

\* "return False" after an operation that returned False
Abort(st) ==
    [st EXCEPT !.result = "false", !.how = "op", !.bad = TRUE, !.failed_at = st.executed]

\* an exception leaves evaluate
Throw(st, err) == [st EXCEPT !.result = "error", !.how = "error", !.err = err]

\* the p2sh rule firing whenever the queue starts with the three commands
P2SHRule_AnyLength(st, pushed) ==
    IF /\ Len(st.commands) >= 3
       /\ st.commands[1] = Op(OP_HASH160)
       /\ IsData(st.commands[2])
       /\ BytesLen(st.commands[2].data) = 20
       /\ st.commands[3] = Op(OP_EQUAL)
    THEN TheOne({IF ~verified.ok
                 THEN Abort([st EXCEPT !.commands = <<>>, !.stack = verified.stack,
                                       !.fired = {"p2sh"}])
                 ELSE IF ParseCommands(pushed).err # "ok"
                 THEN Throw([st EXCEPT !.commands = <<>>, !.stack = verified.stack,
                                       !.fired = {"p2sh"}], ParseCommands(pushed).err)
                 ELSE [st EXCEPT !.commands = ParseCommands(pushed).commands,
                                 !.stack = verified.stack,
                                 !.fired = {"p2sh"},
                                 !.appended = ParseCommands(pushed).commands] :
                 verified \in {op_verify(op_equal(Append(op_hash160(st.stack).stack,
                                                         st.commands[2].data)).stack)}})
    ELSE st

\* the p2sh rule, after the push of the command on the stack: the three
\* commands left are popped, HASH160 of the pushed item is compared with the
\* hash and the commands of the pushed item are added to the queue
P2SHRule(st, pushed) ==
    IF /\ Len(st.commands) = 3
       /\ st.commands[1] = Op(OP_HASH160)
       /\ IsData(st.commands[2])
       /\ BytesLen(st.commands[2].data) = 20
       /\ st.commands[3] = Op(OP_EQUAL)
    THEN TheOne({IF ~verified.ok
                 THEN Abort([st EXCEPT !.commands = <<>>, !.stack = verified.stack,
                                       !.fired = {"p2sh"}])
                 ELSE IF ParseCommands(pushed).err # "ok"
                 THEN Throw([st EXCEPT !.commands = <<>>, !.stack = verified.stack,
                                       !.fired = {"p2sh"}], ParseCommands(pushed).err)
                 ELSE [st EXCEPT !.commands = ParseCommands(pushed).commands,
                                 !.stack = verified.stack,
                                 !.fired = {"p2sh"},
                                 !.appended = ParseCommands(pushed).commands] :
                 verified \in {op_verify(op_equal(Append(op_hash160(st.stack).stack,
                                                         st.commands[2].data)).stack)}})
    ELSE st

\* witness.items as commands
ItemCommands(items) == [j \in DOMAIN items |-> Data(items[j])]

\* the p2wpkh rule adding the witness items alone
P2WPKHRule_NoScript(st, witness) ==
    IF Len(st.stack) = 2 /\ st.stack[1] = EmptyBytes /\ BytesLen(st.stack[2]) = 20
    THEN [st EXCEPT !.stack = <<>>,
                    !.h160 = st.stack[2],
                    !.commands = @ \o ItemCommands(witness),
                    !.fired = @ \cup {"p2wpkh"},
                    !.appended = @ \o ItemCommands(witness)]
    ELSE st

\* the witness program version 0 rule for a 20-byte hash
P2WPKHRule(st, witness) ==
    IF Len(st.stack) = 2 /\ st.stack[1] = EmptyBytes /\ BytesLen(st.stack[2]) = 20
    THEN [st EXCEPT !.stack = <<>>,
                    !.h160 = st.stack[2],
                    !.commands = @ \o ItemCommands(witness) \o P2PKHScriptPubKey(st.stack[2]),
                    !.fired = @ \cup {"p2wpkh"},
                    !.appended = @ \o ItemCommands(witness) \o P2PKHScriptPubKey(st.stack[2])]
    ELSE st

\* the p2wsh rule without the comparison of the hashes
P2WSHRule_NoCheck(st, witness) ==
    IF Len(st.stack) = 2 /\ st.stack[1] = EmptyBytes /\ BytesLen(st.stack[2]) = 32
    THEN IF witness = <<>> THEN Throw([st EXCEPT !.stack = <<>>], "IndexError")
         ELSE TheOne({IF ParseCommands(Top(witness)).err # "ok"
                      THEN Throw(popped, ParseCommands(Top(witness)).err)
                      ELSE [popped EXCEPT
                              !.commands = @ \o ParseCommands(Top(witness)).commands,
                              !.appended = @ \o ParseCommands(Top(witness)).commands] :
                      popped \in {[st EXCEPT !.stack = <<>>,
                                             !.s256 = st.stack[2],
                                             !.commands = @ \o ItemCommands(Pop(witness)),
                                             !.fired = @ \cup {"p2wsh"},
                                             !.appended = @ \o ItemCommands(Pop(witness))]}})
    ELSE st

\* the witness program version 0 rule for a 32-byte hash
P2WSHRule(st, witness) ==
    IF Len(st.stack) = 2 /\ st.stack[1] = EmptyBytes /\ BytesLen(st.stack[2]) = 32
    THEN IF witness = <<>> THEN Throw([st EXCEPT !.stack = <<>>], "IndexError")
         ELSE TheOne({IF st.stack[2] # sha256(Top(witness))
                      THEN [popped EXCEPT !.result = "false", !.how = "rule"]
                      ELSE IF ParseCommands(Top(witness)).err # "ok"
                      THEN Throw(popped, ParseCommands(Top(witness)).err)
                      ELSE [popped EXCEPT
                              !.commands = @ \o ParseCommands(Top(witness)).commands,
                              !.appended = @ \o ParseCommands(Top(witness)).commands] :
                      popped \in {[st EXCEPT !.stack = <<>>,
                                             !.s256 = st.stack[2],
                                             !.commands = @ \o ItemCommands(Pop(witness)),
                                             !.fired = @ \cup {"p2wsh"},
                                             !.appended = @ \o ItemCommands(Pop(witness))]}})
    ELSE st

\* the two witness rules, one after the other, unless evaluate has returned
WitnessRules(st, witness) ==
    IF st.result # "running" THEN st
    ELSE P2WSHRule(P2WPKHRule(st, witness), witness)

\* the body of the while loop of Script.evaluate: the first command leaves
\* the queue and is executed; executed counts the commands up to MaxExecuted,
\* before is the queue and under the stack that the command finds, fired
\* the rules that fire on it and appended the commands they add
Script_evaluate_command(st, z, witness) ==
    TheOne({IF IsOp(Head(st.commands))
            THEN IF Head(st.commands).op \notin KnownOps THEN Throw(popped, "KeyError")
                 ELSE IF ~Operation(Head(st.commands).op, st.stack, z).ok THEN Abort(popped)
                 ELSE [popped EXCEPT !.stack = Operation(Head(st.commands).op, st.stack, z).stack]
            ELSE WitnessRules(
                     P2SHRule([popped EXCEPT !.stack = Append(@, Head(st.commands).data)],
                              Head(st.commands).data),
                     witness) :
            popped \in {[st EXCEPT !.commands = Tail(st.commands),
                                   !.command = Head(st.commands),
                                   !.before = Tail(st.commands),
                                   !.under = st.stack,
                                   !.executed = IF @ < MaxExecuted THEN @ + 1 ELSE @,
                                   !.fired = {},
                                   !.appended = <<>>]}})

\* the end of Script.evaluate, reached with an empty queue
Script_evaluate_return(st) ==
    [st EXCEPT !.how = "end",
               !.result = IF Len(st.stack) = 0 THEN "false"
                          ELSE IF Top(st.stack) = EmptyBytes THEN "false"
                          ELSE "true"]

\* the signature hash handed to evaluate
SigHash == <<"z", 1>>

\* a signature of the first key over the signature hash, one over another
\* hash
GoodSig == SigOver(Point(1), SigHash)
BadSig == SigOver(Point(1), <<"z", 2>>)

\* the script behind the script hashes
KeyScript == <<Data(sec(Point(1))), Op(OP_CHECKSIG)>>

\* the combined scripts and the witnesses handed to evaluate: plain ones,
\* the six supported shapes with a good and a bad signature or a wrong
\* hash, scripts in which the three commands of the p2sh rule are followed
\* or preceded by another one, and witnesses that hold a witness program
Evaluations ==
    {[script |-> s, witness |-> <<>>] :
        s \in {<<>>, <<Op(81)>>, <<Op(OP_0)>>, <<Op(81), Op(105)>>, <<Op(106), Op(81)>>,
               <<Op(81), Op(106), Op(81)>>, <<Op(97), Op(255)>>, <<Op(OP_DUP), Op(81)>>}}
    \cup {[script |-> <<Data(sig), Data(sec(Point(k)))>> \o P2PKHScriptPubKey(hash160(sec(Point(1)))),
           witness |-> <<>>] : sig \in {GoodSig, BadSig}, k \in {1, 2}}
    \cup {[script |-> <<Data(sig), Data(raw_serialize(rs))>>
                         \o P2SHScriptPubKey(RedeemScript_hash160(KeyScript)),
           witness |-> <<>>] :
             sig \in {GoodSig, BadSig}, rs \in {KeyScript, <<Op(81)>>}}
    \cup {[script |-> <<Data(raw_serialize(<<Op(81)>>))>>
                         \o P2SHScriptPubKey(RedeemScript_hash160(<<Op(81)>>)) \o tail,
           witness |-> <<>>] : tail \in {<<>>, <<Op(81)>>, <<Op(OP_EQUAL)>>}}
    \cup {[script |-> <<Data(raw_serialize(<<Op(81)>>)), Op(OP_HASH160),
                        Data(RedeemScript_hash160(<<Op(81)>>))>>,
           witness |-> <<>>]}
    \cup {[script |-> P2WPKHScriptPubKey(hash160(sec(Point(1)))),
           witness |-> <<sig, sec(Point(k))>>] : sig \in {GoodSig, BadSig}, k \in {1, 2}}
    \cup {[script |-> P2WSHScriptPubKey(WitnessScript_sha256(KeyScript)),
           witness |-> <<sig, raw_serialize(ws)>>] :
             sig \in {GoodSig, BadSig}, ws \in {KeyScript, <<Op(81)>>}}
    \cup {[script |-> <<Data(raw_serialize(P2WPKHScriptPubKey(hash160(sec(Point(1))))))>>
                         \o P2SHScriptPubKey(RedeemScript_hash160(
                                P2WPKHScriptPubKey(hash160(sec(Point(1)))))),
           witness |-> <<sig, sec(Point(1))>>] : sig \in {GoodSig, BadSig}}
    \cup {[script |-> <<Data(raw_serialize(P2WSHScriptPubKey(WitnessScript_sha256(KeyScript))))>>
                         \o P2SHScriptPubKey(RedeemScript_hash160(
                                P2WSHScriptPubKey(WitnessScript_sha256(KeyScript)))),
           witness |-> <<sig, raw_serialize(KeyScript)>>] : sig \in {GoodSig, BadSig}}
    \cup {[script |-> <<Op(OP_0), Data(sec(Point(1))), Op(OP_HASH160),
                        Data(raw_serialize(<<Op(81)>>))>>
                         \o P2SHScriptPubKey(RedeemScript_hash160(<<Op(81)>>)),
           witness |-> <<GoodSig, sec(Point(1))>>],
          [script |-> P2WPKHScriptPubKey(hash160(sec(Point(1)))),
           witness |-> <<EmptyBytes, hash160(sec(Point(1)))>>],
          [script |-> P2WSHScriptPubKey(sha256(EmptyBytes)),
           witness |-> <<>>],
          [script |-> P2WSHScriptPubKey(sha256(EmptyBytes)),
           witness |-> <<GoodSig, EmptyBytes>>],
          [script |-> P2WSHScriptPubKey(sha256(EmptyBytes)),
           witness |-> <<EmptyBytes, sha256(EmptyBytes), EmptyBytes>>],
          [script |-> P2WSHScriptPubKey(WitnessScript_sha256(<<Op(97)>>)),
           witness |-> <<EmptyBytes, WitnessScript_sha256(<<Op(97)>>),
                         raw_serialize(<<Op(97)>>)>>]}

\* script.evaluate(z, witness) has been called: the queue is a copy of the
\* commands, the stacks are empty
InitEval ==
    /\ psbts = <<>>
    /\ finalized = {}
    /\ \E e \in Evaluations :
         last = [op |-> "evaluate", c |-> 0, err |-> "ok", pre |-> e, was |-> {},
                 commands |-> e.script, stack |-> <<>>, altstack |-> <<>>,
                 result |-> "running", how |-> "running", bad |-> FALSE,
                 executed |-> 0, failed_at |-> 0,
                 command |-> Op(97), before |-> <<>>, under |-> <<>>,
                 h160 |-> <<>>, s256 |-> <<>>, fired |-> {}, appended |-> <<>>]
    /\ steps = 0

\* one turn of the while loop
EvaluateCommand ==
    /\ last.op = "evaluate"
    /\ last.result = "running"
    /\ last.commands # <<>>
    /\ last' = Script_evaluate_command(last, SigHash, last.pre.witness)
    /\ UNCHANGED <<psbts, finalized, steps>>

\* the queue is empty: evaluate returns what the stack says
EvaluateReturn ==
    /\ last.op = "evaluate"
    /\ last.result = "running"
    /\ last.commands = <<>>
    /\ last' = Script_evaluate_return(last)
    /\ UNCHANGED <<psbts, finalized, steps>>

NextEval ==
    \/ EvaluateCommand
    \/ EvaluateReturn

SpecEval == InitEval /\ [][NextEval]_vars

\* the interpreter goes on as long as it has not returned
SpecEvalFair == SpecEval /\ WF_vars(NextEval)

-----------------------------------------------------------------------------
(* Properties of Script.evaluate *)

\* the last n commands of a queue
LastCommands(q, n) == SubSeq(q, Len(q) - n + 1, Len(q))

\* the stack says true
StackTrue(stack) == stack # <<>> /\ Top(stack) # EmptyBytes

(* C31 *)
\* Script.evaluate returns true exactly when it reached the end of the
\* queue, no operation returned False and the stack is not empty with a top
\* other than b""; an operation that returns False makes evaluate return
\* False at that command, never executing one more.
C31_EvaluateResult ==
    last.op = "evaluate" =>
      /\ (last.result = "true") <=> (last.how = "end" /\ ~last.bad /\ StackTrue(last.stack))
      /\ last.bad => /\ last.result = "false"
                     /\ last.how = "op"
                     /\ last.executed = last.failed_at

\* an operation returned False while commands were left in the queue
C31_Witness ==
    /\ last.op = "evaluate"
    /\ last.bad
    /\ last.result = "false"
    /\ last.commands # <<>>
    /\ last.fired = {}

(* C32 *)
\* The p2sh rule fires only on a push that leaves exactly OP_HASH160, a
\* 20-byte hash and OP_EQUAL in the queue; it takes the three commands and
\* the pushed item away, and either the hash is the HASH160 of the pushed
\* item and the queue holds the commands parsed from the item, or evaluate
\* returns False.
C32_P2SHRule ==
    (last.op = "evaluate" /\ "p2sh" \in last.fired) =>
      /\ Len(last.before) = 3
      /\ IsData(last.command)
      /\ IsData(last.before[2])
      /\ last.before = P2SHScriptPubKey(last.before[2].data)
      /\ BytesLen(last.before[2].data) = 20
      /\ IF hash160(last.command.data) = last.before[2].data
         THEN /\ last.result = "running"
              /\ last.commands = last.appended
              /\ SubSeq(last.appended, 1, Len(ParseCommands(last.command.data).commands))
                   = ParseCommands(last.command.data).commands
              /\ last.fired = {"p2sh"} =>
                   /\ last.commands = ParseCommands(last.command.data).commands
                   /\ last.stack = last.under
         ELSE /\ last.result = "false"
              /\ last.stack = last.under

\* the rule has fired on a matching hash and has queued the commands of the
\* redeem script
C32_Witness ==
    /\ last.op = "evaluate"
    /\ last.fired = {"p2sh"}
    /\ last.result = "running"
    /\ last.commands = KeyScript

\* a p2wpkh script pubkey evaluated with a witness of a signature and a
\* public key
IsP2WPKHSpend(e) ==
    /\ Len(e.script) = 2
    /\ e.script[1] = Op(OP_0)
    /\ IsData(e.script[2])
    /\ BytesLen(e.script[2].data) = 20
    /\ Len(e.witness) = 2
    /\ e.witness[1][1] = "der"
    /\ e.witness[2][1] = "sec"

(* C33 *)
\* For the script pubkey OP_0 <h> and a witness of a signature and a public
\* key, the p2wpkh rule pops both stack items and queues the witness items
\* followed by the p2pkh script of h, and evaluate returns true exactly when
\* h is the HASH160 of the public key and the signature is one of that key
\* over z, false otherwise.
C33_P2WPKHSpend ==
    (last.op = "evaluate" /\ IsP2WPKHSpend(last.pre)) =>
      /\ "p2wpkh" \in last.fired =>
           /\ last.stack = <<>>
           /\ last.h160 = last.pre.script[2].data
           /\ last.appended = ItemCommands(last.pre.witness)
                                \o P2PKHScriptPubKey(last.pre.script[2].data)
           /\ last.commands = last.appended
      /\ last.result # "error"
      /\ last.result # "running" =>
           /\ last.result \in {"true", "false"}
           /\ (last.result = "true") <=>
                /\ hash160(last.pre.witness[2]) = last.pre.script[2].data
                /\ last.pre.witness[1] = SigOver(last.pre.witness[2][2], SigHash)

\* a p2wpkh spend with the signature of the key has been evaluated to true
C33_Witness ==
    /\ last.op = "evaluate"
    /\ IsP2WPKHSpend(last.pre)
    /\ last.result = "true"
    /\ last.executed = 9

(* C34 *)
\* When the p2wsh rule fires, the empty item and the 32-byte hash are popped;
\* if the hash is not the SHA256 of the last witness item, evaluate returns
\* False there and then, and if it is, the commands added to the queue are
\* the witness items but the last, followed by the commands parsed from the
\* last.
C34_P2WSHRule ==
    (last.op = "evaluate" /\ "p2wsh" \in last.fired) =>
      /\ last.stack = <<>>
      /\ BytesLen(last.s256) = 32
      /\ last.pre.witness # <<>>
      /\ IF last.s256 # sha256(Top(last.pre.witness))
         THEN /\ last.result = "false"
              /\ last.how = "rule"
         ELSE /\ last.result = "running"
              /\ LastCommands(last.appended,
                              Len(last.pre.witness) - 1
                                + Len(ParseCommands(Top(last.pre.witness)).commands))
                   = ItemCommands(Pop(last.pre.witness))
                       \o ParseCommands(Top(last.pre.witness)).commands
              /\ LastCommands(last.commands, Len(last.appended)) = last.appended

\* the rule has fired on a witness script of another hash and evaluate has
\* returned False with the witness items left in the queue
C34_Witness ==
    /\ last.op = "evaluate"
    /\ "p2wsh" \in last.fired
    /\ last.s256 # sha256(Top(last.pre.witness))
    /\ last.result = "false"
    /\ last.commands # <<>>

(* C35 *)
\* Script.evaluate returns or raises for every script and witness.
C35_EvaluateTerminates == <>(last.result # "running")

-----------------------------------------------------------------------------
(* Properties of the validity of an updated PSBT *)

(* C36 *)
\* Every PSBT that passes validate still passes it after an update that
\* returned normally, whatever the lookup tables hold and whatever the shape
\* of its inputs and outputs.
C36_UpdatePreservesValidity ==
    \A c \in DOMAIN psbts : \A l \in Lookups :
        (PSBT_validate(psbts[c]) = "ok" /\ UpdateWith(c, l).err = "ok") =>
            PSBT_validate(UpdateWith(c, l).psbt) = "ok"

-----------------------------------------------------------------------------
(* Properties of a failing finalize *)

\* the inputs of the receiver of the last finalize call that the call could
\* not finalize
Failing == {i \in DOMAIN last.pre : PSBTIn_finalize(last.pre[i]).err # "ok"}

\* C37 as stated: if PSBT.finalize raises because some input cannot be
\* finalized, no input of the PSBT has been modified, and a failing
\* PSBTIn.finalize leaves its own fields unchanged.
C37_FinalizeAllOrNothing ==
    (last.op = "finalize" /\ last.err # "ok") =>
        /\ psbts[last.c].psbt_ins = last.pre
        /\ \A i \in Failing : PSBTIn_finalize(last.pre[i]).p = last.pre[i]

\* C37, amended: if PSBT.finalize raises because some input cannot be
\* finalized, that input and every input after it have not been modified,
\* while every input before it has been finalized; a failing
\* PSBTIn.finalize leaves its own fields unchanged.
C37_FinalizeStopsAtFailure ==
    (last.op = "finalize" /\ last.err # "ok") =>
        /\ Failing # {}
        /\ \A i \in DOMAIN last.pre :
             IF \E k \in Failing : k <= i
             THEN psbts[last.c].psbt_ins[i] = last.pre[i]
             ELSE /\ psbts[last.c].psbt_ins[i] = PSBTIn_finalize(last.pre[i]).p
                  /\ psbts[last.c].psbt_ins[i].sigs = <<>>
                  /\ psbts[last.c].psbt_ins[i].script_sig # None
        /\ \A i \in Failing : PSBTIn_finalize(last.pre[i]).p = last.pre[i]

\* a finalize call has raised on the second input after it had finalized the
\* first one, and the second input holds a signature
C37_Witness ==
    /\ last.op = "finalize"
    /\ last.err # "ok"
    /\ Failing = {2}
    /\ last.was = {}
    /\ last.pre[2].sigs # <<>>
    /\ psbts[last.c].psbt_ins[1] # last.pre[1]

-----------------------------------------------------------------------------
(* Properties of the serialized signatures *)

(* C38 *)
\* Every entry of the partial-signature map of an input is written exactly
\* once by PSBTIn.serialize, under its key and with its signature, whether
\* or not the key is a command of the redeem or witness script of the input
\* and however often it occurs there.
C38_SerializeKeepsSigs ==
    \A c \in DOMAIN psbts : \A i \in DOMAIN psbts[c].psbt_ins :
        LET p == psbts[c].psbt_ins[i]
            m == PSBTIn_serialize(p)
            written(key) == {n \in DOMAIN MapKeys(m) :
                               MapKeys(m)[n] = <<PSBT_IN_PARTIAL_SIG, key>>}
        IN \A j \in DOMAIN p.sigs :
             /\ Cardinality(written(p.sigs[j].sec)) = 1
             /\ \A n \in written(p.sigs[j].sec) : m[2 * n] = p.sigs[j].sig

-----------------------------------------------------------------------------
(* Properties of what an update keeps *)

\* a field that is set keeps its value
Kept(before, after) == Truthy(before) => after = before

\* the key annotations are still there, with the same value
AnnotationsKept(before, after) ==
    \A b \in DOMAIN before : b \in DOMAIN after /\ after[b] = before[b]

(* C39 *)
\* After an update that returned normally, every redeem script, witness
\* script, previous transaction, previous output and key annotation that an
\* input or output had before the call is still there with the same value,
\* whatever the lookup tables hold or lack.
C39_UpdateOnlyAdds ==
    \A c \in DOMAIN psbts : \A l \in Lookups :
        LET r == UpdateWith(c, l)
        IN r.err = "ok" =>
             /\ \A i \in DOMAIN psbts[c].psbt_ins :
                  LET p == psbts[c].psbt_ins[i]
                      q == r.psbt.psbt_ins[i]
                  IN /\ Kept(p.prev_tx, q.prev_tx)
                     /\ Kept(p.prev_out, q.prev_out)
                     /\ Kept(p.redeem_script, q.redeem_script)
                     /\ Kept(p.witness_script, q.witness_script)
                     /\ AnnotationsKept(p.named_pubs, q.named_pubs)
             /\ \A i \in DOMAIN psbts[c].psbt_outs :
                  LET o == psbts[c].psbt_outs[i]
                      q == r.psbt.psbt_outs[i]
                  IN /\ Kept(o.redeem_script, q.redeem_script)
                     /\ Kept(o.witness_script, q.witness_script)
                     /\ AnnotationsKept(o.named_pubs, q.named_pubs)

-----------------------------------------------------------------------------
(* Properties of the transaction of a PSBT *)

\* the transaction of the PSBT carries no unlocking data and the PSBT has one
\* PSBTIn for each of its inputs and one PSBTOut for each of its outputs
SkeletonUnsignedAndAligned(psbt) ==
    /\ \A i \in DOMAIN psbt.tx_obj.tx_ins :
         /\ "script_sig" \in DOMAIN psbt.tx_obj.tx_ins[i] =>
              psbt.tx_obj.tx_ins[i].script_sig = Some(<<>>)
         /\ "witness" \in DOMAIN psbt.tx_obj.tx_ins[i] => psbt.tx_obj.tx_ins[i].witness = <<>>
    /\ Len(psbt.psbt_ins) = Len(psbt.tx_obj.tx_ins)
    /\ Len(psbt.psbt_outs) = Len(psbt.tx_obj.tx_outs)

====
